---------------------------- MODULE Spec2Model ----------------------------
(***************************************************************************)
(* Model of the mortgage calculator's amortization engine.                 *)
(*                                                                         *)
(* The engine computes on JavaScript Numbers (IEEE-754 binary floating     *)
(* point).  The model keeps that arithmetic: a Number is NaN, +Infinity,   *)
(* -Infinity or a finite value m * 2^e whose mantissa m has at most        *)
(* Precision bits, and every operation rounds its exact result to the      *)
(* nearest such value, ties to even, overflowing to an infinity and        *)
(* underflowing gradually.  Precision and the exponent range are smaller   *)
(* than a double's 53 bits and 11 exponent bits so that the arithmetic     *)
(* fits TLC's 32-bit integers; the sign of zero is not modelled.           *)
(* Equality of two model Numbers is identity of value (NaN is NaN).        *)
(***************************************************************************)
EXTENDS Integers, Naturals, Sequences, FiniteSets, TLC

\* ------------------------------------------------------------- bounds

\* Bits of mantissa of a Number (a double has 53).
Precision == 13

\* Largest exponent e of a finite Number m * 2^e (a double: 971).
ExpMax == 40

\* Largest whole number of years among the inputs drawn.
MaxYears == 2

\* Clock ticks a debounced function is followed for, and calls made to it.
MaxTime == 8

MaxCalls == 3

\* Smallest exponent of a finite Number (a double: -1074).
ExpMin == 0 - ExpMax - Precision

\* Rows after which the monthly loop of a call that cannot end (years =
\* Infinity) is no longer followed.
MaxRows == 12 * MaxYears + 6

\* --------------------------------------------------- Number arithmetic

Max(a, b) == IF a >= b THEN a ELSE b

Abs(i) == IF i < 0 THEN 0 - i ELSE i

Sgn(i) == IF i < 0 THEN 0 - 1 ELSE 1

Pow2(k) == 2 ^ k

\* Number of bits of the natural number n (n < 2^31).
RECURSIVE BitLen(_)
BitLen(n) ==
  IF n = 0 THEN 0
  ELSE IF n >= 65536 THEN 16 + BitLen(n \div 65536)
  ELSE IF n >= 256 THEN 8 + BitLen(n \div 256)
  ELSE IF n >= 16 THEN 4 + BitLen(n \div 16)
  ELSE IF n >= 4 THEN 2 + BitLen(n \div 4)
  ELSE IF n >= 2 THEN 2
  ELSE 1

NaN == [k |-> "nan", m |-> 0, e |-> 0]

PInf == [k |-> "inf", m |-> 1, e |-> 0]

NInf == [k |-> "inf", m |-> 0 - 1, e |-> 0]

Zero == [k |-> "fin", m |-> 0, e |-> ExpMin]

\* An absent property of the argument object (undefined).
Undefined == [k |-> "undef", m |-> 0, e |-> 0]

Inf(s) == IF s < 0 THEN NInf ELSE PInf

IsNaN(a) == a.k = "nan"

IsInf(a) == a.k = "inf"

IsFinite(a) == a.k = "fin"

IsZero(a) == a.k = "fin" /\ a.m = 0

\* The Number nearest to s * (n + t) * 2^e, where n >= 0 is an integer,
\* s is the sign and t is 0, or some value in (0,1) when sticky holds:
\* round to nearest, ties to even, with gradual underflow and overflow.
Norm(s, n, e, sticky) ==
  IF n = 0 THEN Zero
  ELSE
    LET L  == BitLen(n)
        sh == Max(L - Precision, ExpMin - e)
    IN  IF sh <= 0
        THEN LET ef == e + sh
             IN  IF ef > ExpMax THEN Inf(s)
                 ELSE [k |-> "fin", m |-> s * n * Pow2(0 - sh), e |-> ef]
        ELSE IF sh > L THEN Zero
        ELSE
          LET q    == n \div Pow2(sh)
              rem  == n % Pow2(sh)
              half == Pow2(sh - 1)
              up   == \/ rem > half
                      \/ rem = half /\ (sticky \/ q % 2 = 1)
              q1   == IF up THEN q + 1 ELSE q
              carry == q1 = Pow2(Precision)
              mf   == IF carry THEN Pow2(Precision - 1) ELSE q1
              ef   == IF carry THEN e + sh + 1 ELSE e + sh
          IN  IF mf = 0 THEN Zero
              ELSE IF ef > ExpMax THEN Inf(s)
              ELSE [k |-> "fin", m |-> s * mf, e |-> ef]

\* The Number of an integer literal.
FromInt(i) == Norm(Sgn(i), Abs(i), 0, FALSE)

FNeg(a) ==
  IF a.k = "nan" THEN NaN
  ELSE IF a.k = "inf" THEN Inf(0 - a.m)
  ELSE [k |-> "fin", m |-> 0 - a.m, e |-> a.e]

\* a * b
FMul(a, b) ==
  IF IsNaN(a) \/ IsNaN(b) THEN NaN
  ELSE IF IsInf(a) \/ IsInf(b)
       THEN IF IsZero(a) \/ IsZero(b) THEN NaN
            ELSE Inf(Sgn(a.m) * Sgn(b.m))
  ELSE Norm(Sgn(a.m) * Sgn(b.m), Abs(a.m) * Abs(b.m), a.e + b.e, FALSE)

\* a / b
FDiv(a, b) ==
  IF IsNaN(a) \/ IsNaN(b) THEN NaN
  ELSE IF IsInf(a)
       THEN IF IsInf(b) THEN NaN ELSE Inf(Sgn(a.m) * Sgn(b.m))
  ELSE IF IsInf(b) THEN Zero
  ELSE IF IsZero(b)
       THEN IF IsZero(a) THEN NaN ELSE Inf(Sgn(a.m))
  ELSE IF IsZero(a) THEN Zero
  ELSE
    LET na == Abs(a.m)
        nb == Abs(b.m)
        sk == BitLen(nb) + Precision + 1 - BitLen(na)
        n  == na * Pow2(sk)
    IN  Norm(Sgn(a.m) * Sgn(b.m), n \div nb, a.e - sk - b.e, n % nb # 0)

\* a + b
FAdd(a, b) ==
  IF IsNaN(a) \/ IsNaN(b) THEN NaN
  ELSE IF IsInf(a)
       THEN IF IsInf(b) /\ a.m # b.m THEN NaN ELSE a
  ELSE IF IsInf(b) THEN b
  ELSE IF IsZero(a) THEN b
  ELSE IF IsZero(b) THEN a
  ELSE
    LET hi == IF a.e >= b.e THEN a ELSE b
        lo == IF a.e >= b.e THEN b ELSE a
        d  == hi.e - lo.e
    IN  IF d > Precision + 1 THEN hi
        ELSE LET n == hi.m * Pow2(d) + lo.m
             IN  Norm(Sgn(n), Abs(n), lo.e, FALSE)

\* a - b
FSub(a, b) == FAdd(a, FNeg(b))

\* a < b (false when either is NaN)
FLt(a, b) ==
  IF IsNaN(a) \/ IsNaN(b) THEN FALSE
  ELSE IF IsInf(a) THEN a.m < 0 /\ b # NInf
  ELSE IF IsInf(b) THEN b.m > 0
  ELSE IF a.m < 0 /\ b.m >= 0 THEN TRUE
  ELSE IF a.m >= 0 /\ b.m < 0 THEN FALSE
  ELSE IF a.m >= 0
       THEN a.e < b.e \/ (a.e = b.e /\ a.m < b.m)
  ELSE a.e > b.e \/ (a.e = b.e /\ a.m < b.m)

\* a <= b (false when either is NaN)
FLe(a, b) == ~IsNaN(a) /\ ~IsNaN(b) /\ (a = b \/ FLt(a, b))

\* Math.ceil of a finite Number, as an integer.
CeilInt(a) ==
  IF a.e >= 0 THEN a.m * Pow2(a.e)
  ELSE IF 0 - a.e > 30 THEN (IF a.m > 0 THEN 1 ELSE 0)
  ELSE 0 - ((0 - a.m) \div Pow2(0 - a.e))

\* b to the power n, n a natural number, by repeated squaring, every
\* product rounded.
RECURSIVE PowInt(_, _)
PowInt(b, n) ==
  IF n = 0 THEN FromInt(1)
  ELSE LET h  == PowInt(b, n \div 2)
           sq == FMul(h, h)
       IN  IF n % 2 = 1 THEN FMul(sq, b) ELSE sq

\* Whether the finite Number a is a whole number.
IsWhole(a) == IsFinite(a) /\ (a.e >= 0 \/ (0 - a.e <= 30 /\ a.m % Pow2(0 - a.e) = 0))

\* The integer a whole Number stands for.
ToInt(a) == IF a.e >= 0 THEN a.m * Pow2(a.e) ELSE a.m \div Pow2(0 - a.e)

\* Math.pow(b, n) for b >= 1 and n >= 0.  The inputs drawn give a whole
\* number of months, so a finite exponent is always a whole number.
MathPow(b, n) ==
  IF IsNaN(n) \/ IsNaN(b) THEN NaN
  ELSE IF IsInf(n)
       THEN IF b = FromInt(1) THEN NaN
            ELSE IF (n.m > 0) = FLt(FromInt(1), b) THEN PInf ELSE Zero
  ELSE IF IsInf(b) THEN PInf
  ELSE PowInt(b, ToInt(n))


\* ------------------------------------------------------------- inputs

\* 0.5, 1.5: terms that are not whole years but give whole months.
Half == Norm(1, 1, 0 - 1, FALSE)

OneAndHalf == Norm(1, 3, 0 - 1, FALSE)

\* A rate so small that 1 + rate/100/12 rounds to 1.
TinyRate == Norm(1, 1, 0 - 5, FALSE)

\* 0.0625: a principal whose balance falls below 0.01 before the last month.
SmallPrincipal == Norm(1, 1, 0 - 4, FALSE)

\* Values the three fields of the argument object are drawn from.
NonFinite == {NaN, PInf, NInf}

PrincipalValues ==
  NonFinite \cup {Undefined, Zero, FromInt(0 - 1000)}
            \cup {SmallPrincipal, FromInt(1), FromInt(100), FromInt(1000),
                  FromInt(800000)}

RateValues ==
  NonFinite \cup {Undefined, Zero, FromInt(0 - 6)}
            \cup {TinyRate, FromInt(6), FromInt(20), FromInt(1200),
                  FromInt(1500), FromInt(37200)}

YearsValues ==
  NonFinite \cup {Undefined, Zero, FromInt(0 - 1), Half, OneAndHalf}
            \cup {FromInt(y) : y \in 1..MaxYears}

\* -------------------------------------------------------------- state

VARIABLES
  args,               \* the argument object { principal, rate, years }
  pc,                 \* position of the caller and of the running call
  principal, rate, years,            \* destructured parameters
  monthlyRate, totalMonths, monthlyPayment, annualPayment,
  month, year,                       \* loop counters
  remainingBalance, totalInterestPaid,
  monthlySchedule, annualSchedule,   \* arrays being built
  result,             \* value returned by calculate of the two-schedule engine
  calc1,              \* local variables of calculate of the annual-only engine
  result1,            \* value returned by calculate of the annual-only engine
  validation,         \* a call of validateInput: its arguments and return value
  app,                \* the page: state, validation errors, what is rendered
  deb,                \* a debounced function: its timer, the clock, what has run
  live,               \* the screen-reader live regions and their timers
  chart,              \* the chart: its schedule, the selected bar, its listeners
  table               \* the amortization table: its years and expanded rows

vars == <<args, pc, principal, rate, years, monthlyRate, totalMonths,
          monthlyPayment, annualPayment, month, year, remainingBalance,
          totalInterestPaid, monthlySchedule, annualSchedule, result, calc1,
          result1, validation, app, deb, live, chart, table>>

\* The variables of calculate, its caller and its results.
engine == <<args, pc, principal, rate, years, monthlyRate, totalMonths,
            monthlyPayment, annualPayment, month, year, remainingBalance,
            totalInterestPaid, monthlySchedule, annualSchedule, result, calc1,
            result1>>

\* The live regions, the chart and the table.
widgets == <<live, chart, table>>

\* The variables calculate never touches.
beyond == <<validation, app, deb, widgets>>

locals == <<principal, rate, years, monthlyRate, totalMonths, monthlyPayment,
            annualPayment, month, year, remainingBalance, totalInterestPaid,
            monthlySchedule, annualSchedule>>

\* The balance below which a remaining balance is reported as 0.
BalanceEpsilon == FDiv(FromInt(1), FromInt(100))

\* A default parameter value: `= 0` applies to an absent property.
Default(x) == IF x = Undefined THEN Zero ELSE x

\* Mutant of Rejects: the comparisons written strict, so a 0 passes.
RejectsStrict(p, r, y) == FLt(p, Zero) \/ FLt(r, Zero) \/ FLt(y, Zero)

\* principal <= 0 || rate <= 0 || years <= 0
Rejects(p, r, y) == FLe(p, Zero) \/ FLe(r, Zero) \/ FLe(y, Zero)

\* rate / 100 / 12
MonthlyRateOf(r) == FDiv(FDiv(r, FromInt(100)), FromInt(12))

\* years * 12
TotalMonthsOf(y) == FMul(y, FromInt(12))

\* Mutant of MonthlyPaymentOf: the denominator without its "- 1".
MonthlyPaymentNoMinusOne(p, mr, tm) ==
  LET X == MathPow(FAdd(FromInt(1), mr), tm)
  IN  FDiv(FMul(p, FMul(mr, X)), X)

\* principal * (monthlyRate * Math.pow(1 + monthlyRate, totalMonths))
\*           / (Math.pow(1 + monthlyRate, totalMonths) - 1)
MonthlyPaymentOf(p, mr, tm) ==
  LET X == MathPow(FAdd(FromInt(1), mr), tm)
  IN  FDiv(FMul(p, FMul(mr, X)), FSub(X, FromInt(1)))

\* monthlyPayment * 12
AnnualPaymentOf(mp) == FMul(mp, FromInt(12))

\* if (remainingBalance < 0.01) remainingBalance = 0
Clamp(b) == IF FLt(b, BalanceEpsilon) THEN Zero ELSE b

\* The object returned when an input is rejected.
EmptyResult ==
  [monthlyPayment |-> Zero, annualPayment |-> Zero, totalInterest |-> Zero,
   totalPaid |-> Zero, monthlySchedule |-> <<>>, annualSchedule |-> <<>>]

EmptyResult1 ==
  [monthlyPayment |-> Zero, annualPayment |-> Zero, totalInterest |-> Zero,
   totalPaid |-> Zero, schedule |-> <<>>]

\* What result and result1 hold before the call has returned.
NoResult == [returned |-> FALSE]

\* The locals of the annual-only calculate before it is entered.
NoLocals ==
  [principal |-> Zero, rate |-> Zero, years |-> Zero, monthlyRate |-> Zero,
   monthlyPayment |-> Zero, annualPayment |-> Zero, schedule |-> <<>>,
   remainingBalance |-> Zero, totalInterestPaid |-> Zero, year |-> 0]

\* ------------------------------------------------------- validateInput

\* null, and the string with text t.
Null == [k |-> "null", m |-> 0, e |-> 0]

Str(t) == [k |-> "string", text |-> t]

\* The Number that isNaN, < and > convert a value to.  The strings drawn
\* are '' and text that is not a numeral.
ToNumber(v) ==
  IF v.k = "undef" THEN NaN
  ELSE IF v.k = "null" THEN Zero
  ELSE IF v.k = "string" THEN (IF v.text = "" THEN Zero ELSE NaN)
  ELSE v

\* A decimal literal of the source, num / den, and the Number it denotes.
Lit(num, den) == [num |-> num, den |-> den]

NumberOf(lit) == FDiv(FromInt(lit.num), FromInt(lit.den))

\* const rules = { principal: {...}, rate: {...}, years: {...} }
rules ==
  [principal |-> [min |-> Lit(1000, 1), max |-> Lit(10000000, 1),
                  label |-> "Loan Amount"],
   rate      |-> [min |-> Lit(1, 10), max |-> Lit(20, 1),
                  label |-> "Interest Rate"],
   years     |-> [min |-> Lit(1, 1), max |-> Lit(40, 1),
                  label |-> "Loan Term"]]

\* Property names the object literal inherits from Object.prototype.
ObjectPrototypeNames == {"constructor", "toString", "valueOf", "hasOwnProperty"}

\* An inherited member: a function, so truthy, without min, max or label.
InheritedMember == [is |-> "function"]

\* rules[field]: an own property, an inherited one, or undefined.
RuleOf(field) ==
  IF field \in DOMAIN rules THEN rules[field]
  ELSE IF field \in ObjectPrototypeNames THEN InheritedMember
  ELSE Undefined

\* rule.min and rule.max as the comparisons see them, rule.label as the
\* template literal prints it (an absent property is undefined).
MinOf(rule) == IF rule = InheritedMember THEN NaN ELSE NumberOf(rule.min)

MaxOf(rule) == IF rule = InheritedMember THEN NaN ELSE NumberOf(rule.max)

LabelOf(rule) == IF rule = InheritedMember THEN "undefined" ELSE rule.label

\* Separators of the host's default locale, which toLocaleString() uses.
Separators ==
  [enUS |-> [group |-> ",", decimal |-> "."],
   deDE |-> [group |-> ".", decimal |-> ","]]

Pad3(n) ==
  IF n < 10 THEN "00" \o ToString(n)
  ELSE IF n < 100 THEN "0" \o ToString(n)
  ELSE ToString(n)

\* The digits of n in groups of three.
RECURSIVE Grouped(_, _)
Grouped(n, sep) ==
  IF n < 1000 THEN ToString(n)
  ELSE Grouped(n \div 1000, sep) \o sep \o Pad3(n % 1000)

\* toLocaleString() of the Number a literal denotes (the literals have at
\* most one fraction digit; toLocaleString prints up to three).
ToLocaleString(lit, locale) ==
  IF lit.den = 1 THEN Grouped(lit.num, Separators[locale].group)
  ELSE Grouped(lit.num \div lit.den, Separators[locale].group)
         \o Separators[locale].decimal \o ToString(lit.num % lit.den)

\* isNaN(value) || value === null || value === ''
IsMissing(value) == IsNaN(ToNumber(value)) \/ value = Null \/ value = Str("")

\* Mutant of ValidateInput: the range tests made before the required test.
ValidateInputRangeFirst(field, value, locale) ==
  LET rule == RuleOf(field)
  IN  IF rule = Undefined THEN Null
      ELSE IF FLt(ToNumber(value), MinOf(rule))
           THEN Str(LabelOf(rule) \o " must be at least "
                      \o ToLocaleString(rule.min, locale))
      ELSE IF FLt(MaxOf(rule), ToNumber(value))
           THEN Str(LabelOf(rule) \o " must be no more than "
                      \o ToLocaleString(rule.max, locale))
      ELSE IF IsMissing(value) THEN Str(LabelOf(rule) \o " is required")
      ELSE Null

\* validateInput(field, value), in a host whose default locale is locale.
ValidateInput(field, value, locale) ==
  LET rule == RuleOf(field)
  IN  IF rule = Undefined THEN Null
      ELSE IF IsMissing(value) THEN Str(LabelOf(rule) \o " is required")
      ELSE IF FLt(ToNumber(value), MinOf(rule))
           THEN Str(LabelOf(rule) \o " must be at least "
                      \o ToLocaleString(rule.min, locale))
      ELSE IF FLt(MaxOf(rule), ToNumber(value))
           THEN Str(LabelOf(rule) \o " must be no more than "
                      \o ToLocaleString(rule.max, locale))
      ELSE Null

\* The Numbers next above and next below a finite Number x > 0.
Above(x) == Norm(1, x.m + 1, x.e, FALSE)

Below(x) ==
  IF x.m > Pow2(Precision - 1) THEN [x EXCEPT !.m = @ - 1]
  ELSE [k |-> "fin", m |-> Pow2(Precision) - 1, e |-> x.e - 1]

\* The field names and values validateInput is called with: every special
\* value, and each bound with its two neighbours.
FieldNames == {"principal", "rate", "years", "term", "constructor", "toString"}

BoundNumbers ==
  {NumberOf(rules[f].min) : f \in DOMAIN rules}
    \cup {NumberOf(rules[f].max) : f \in DOMAIN rules}

FieldValues ==
  NonFinite \cup {Undefined, Null, Str(""), Str("abc"), Zero, FromInt(0 - 5)}
            \cup BoundNumbers
            \cup {Above(b) : b \in BoundNumbers}
            \cup {Below(b) : b \in BoundNumbers}

Locales == DOMAIN Separators

\* No call of validateInput is being made.
NotValidating ==
  [pc |-> "idle", field |-> "", value |-> Undefined, locale |-> "enUS",
   ret |-> Undefined]

\* ----------------------------------------------------------- debounce

\* wait = 300, in clock ticks of 100 ms.
Wait == 3

\* A debounced function right after debounce(fn, wait): `let timeout` is
\* undefined (0: no timer has that id), nothing is scheduled, the clock is
\* at 0.  lastCall and lastRun record the latest call and the latest run
\* of fn; runsSinceCall counts the runs of fn since the latest call.
NoDebounce ==
  [now |-> 0, timeout |-> 0, timers |-> {}, nextId |-> 1,
   nCalls |-> 0, lastCall |-> [at |-> 0, args |-> ""],
   runsSinceCall |-> 0, lastRun |-> [at |-> 0, args |-> ""]]

\* ----------------------------------------------------------- the page

\* What the page shows before anything is rendered; the style.display of
\* the two containers is not set yet.
NothingShown ==
  [results |-> Undefined, table |-> Undefined, equations |-> Undefined,
   chart |-> Undefined, chartContainer |-> "", tableContainer |-> ""]

\* The page when the application is not loaded.
NoPage ==
  [pc |-> "unloaded",
   inputs |-> [principal |-> Undefined, rate |-> Undefined, years |-> Undefined],
   view |-> "chart", forceTable |-> FALSE, errors |-> <<>>,
   summary |-> <<>>, ariaInvalid |-> {}, focus |-> "", calls |-> <<>>,
   shown |-> NothingShown,
   build |-> "calculator.js", width |-> 1024, resized |-> FALSE,
   pressed |-> "", chartDisabled |-> FALSE,
   notified |-> 0,
   lastAnnounced |-> [principal |-> FromInt(800000), rate |-> FromInt(6),
                      years |-> FromInt(30)]]

\* The widgets before the page has rendered anything.
NoLive ==
  [text |-> [result |-> "", chart |-> "", table |-> ""], timers |-> {},
   announceTimeout |-> "null"]

NoChart ==
  [drawn |-> FALSE, labels |-> <<>>, length |-> 0, currentIndex |-> 0,
   listeners |-> <<>>, highlighted |-> 0 - 1]

NoTable ==
  [version |-> "part_002", body |-> "", yearRows |-> <<>>,
   monthRows |-> <<>>, focus |-> 0]

Init ==
  /\ args \in [principal : PrincipalValues, rate : RateValues, years : YearsValues]
  /\ pc = "call"
  /\ principal = Zero /\ rate = Zero /\ years = Zero
  /\ monthlyRate = Zero /\ totalMonths = Zero
  /\ monthlyPayment = Zero /\ annualPayment = Zero
  /\ month = 0 /\ year = 0
  /\ remainingBalance = Zero /\ totalInterestPaid = Zero
  /\ monthlySchedule = <<>> /\ annualSchedule = <<>>
  /\ result = NoResult /\ result1 = NoResult
  /\ calc1 = NoLocals
  /\ validation = NotValidating
  /\ app = NoPage
  /\ deb = NoDebounce
  /\ live = NoLive
  /\ chart = NoChart
  /\ table = NoTable

\* ---------------------------------- calculate, monthly and annual schedules

\* Entry of calculate: the parameters, the guard, the payment.
CalcEnter ==
  /\ pc = "call"
  /\ LET p  == Default(args.principal)
         r  == Default(args.rate)
         y  == Default(args.years)
         mr == MonthlyRateOf(r)
         tm == TotalMonthsOf(y)
         mp == MonthlyPaymentOf(p, mr, tm)
     IN  /\ principal' = p /\ rate' = r /\ years' = y
         /\ IF Rejects(p, r, y)
            THEN /\ result' = EmptyResult
                 /\ pc' = "returned"
                 /\ UNCHANGED <<monthlyRate, totalMonths, monthlyPayment,
                                annualPayment, month, remainingBalance,
                                totalInterestPaid, monthlySchedule>>
            ELSE /\ monthlyRate' = mr
                 /\ totalMonths' = tm
                 /\ monthlyPayment' = mp
                 /\ annualPayment' = AnnualPaymentOf(mp)
                 /\ monthlySchedule' = <<>>
                 /\ remainingBalance' = p
                 /\ totalInterestPaid' = Zero
                 /\ month' = 1
                 /\ pc' = "monthly"
                 /\ UNCHANGED result
  /\ UNCHANGED <<args, year, annualSchedule, calc1, result1>>
  /\ UNCHANGED beyond

\* Mutant of MonthRow: totalPayment recomputed as principal + interest.
MonthRowRecomputed(mo, bal, mp, mr) ==
  LET interestPayment  == FMul(bal, mr)
      principalPayment == FSub(mp, interestPayment)
  IN  [month |-> mo,
       year |-> CeilInt(FDiv(FromInt(mo), FromInt(12))),
       monthInYear |-> ((mo - 1) % 12) + 1,
       principal |-> principalPayment,
       interest |-> interestPayment,
       totalPayment |-> FAdd(principalPayment, interestPayment),
       remainingBalance |-> Clamp(FSub(bal, principalPayment))]

\* Mutant of MonthRow: the balance reduced by the whole payment.
MonthRowPaysWhole(mo, bal, mp, mr) ==
  LET interestPayment  == FMul(bal, mr)
      principalPayment == FSub(mp, interestPayment)
  IN  [month |-> mo,
       year |-> CeilInt(FDiv(FromInt(mo), FromInt(12))),
       monthInYear |-> ((mo - 1) % 12) + 1,
       principal |-> principalPayment,
       interest |-> interestPayment,
       totalPayment |-> mp,
       remainingBalance |-> Clamp(FSub(bal, mp))]

\* Mutant of MonthRow: year as floor(month / 12) + 1.
MonthRowYearByFloor(mo, bal, mp, mr) ==
  LET interestPayment  == FMul(bal, mr)
      principalPayment == FSub(mp, interestPayment)
  IN  [month |-> mo,
       year |-> (mo \div 12) + 1,
       monthInYear |-> ((mo - 1) % 12) + 1,
       principal |-> principalPayment,
       interest |-> interestPayment,
       totalPayment |-> mp,
       remainingBalance |-> Clamp(FSub(bal, principalPayment))]

\* The row the monthly loop pushes for month mo, from balance bal.
MonthRow(mo, bal, mp, mr) ==
  LET interestPayment  == FMul(bal, mr)
      principalPayment == FSub(mp, interestPayment)
  IN  [month |-> mo,
       year |-> CeilInt(FDiv(FromInt(mo), FromInt(12))),
       monthInYear |-> ((mo - 1) % 12) + 1,
       principal |-> principalPayment,
       interest |-> interestPayment,
       totalPayment |-> mp,
       remainingBalance |-> Clamp(FSub(bal, principalPayment))]

\* Mutant of MonthlyLoopRuns: month < totalMonths.
MonthlyLoopRunsStrict == FLt(FromInt(month), totalMonths)

\* month <= totalMonths
MonthlyLoopRuns == FLe(FromInt(month), totalMonths)

\* One iteration of the monthly loop.
MonthStep ==
  /\ pc = "monthly"
  /\ MonthlyLoopRuns
  /\ Len(monthlySchedule) < MaxRows
  /\ LET row == MonthRow(month, remainingBalance, monthlyPayment, monthlyRate)
     IN  /\ totalInterestPaid' = FAdd(totalInterestPaid, row.interest)
         /\ remainingBalance' = row.remainingBalance
         /\ monthlySchedule' = Append(monthlySchedule, row)
  /\ month' = month + 1
  /\ UNCHANGED <<args, pc, principal, rate, years, monthlyRate, totalMonths,
                 monthlyPayment, annualPayment, year, annualSchedule,
                 result, calc1, result1>>
  /\ UNCHANGED beyond

\* The monthly loop ends; the annual loop is set up.
MonthExit ==
  /\ pc = "monthly"
  /\ ~MonthlyLoopRuns
  /\ annualSchedule' = <<>>
  /\ remainingBalance' = principal
  /\ year' = 1
  /\ pc' = "annual"
  /\ UNCHANGED <<args, principal, rate, years, monthlyRate, totalMonths,
                 monthlyPayment, annualPayment, month, totalInterestPaid,
                 monthlySchedule, result, calc1, result1>>
  /\ UNCHANGED beyond

\* Mutant of YearSums: the bound written i <= endMonth, one row too many.
RECURSIVE YearSumsInclusive(_, _, _, _)
YearSumsInclusive(sched, i, endMonth, acc) ==
  IF i > endMonth THEN acc
  ELSE IF i < Len(sched)
       THEN YearSumsInclusive(sched, i + 1, endMonth,
                              <<FAdd(acc[1], sched[i + 1].interest),
                                FAdd(acc[2], sched[i + 1].principal)>>)
  ELSE YearSumsInclusive(sched, i + 1, endMonth, acc)

\* The inner loop of the annual pass: rows i .. endMonth-1 (0-based) added
\* to the sums acc = <<yearlyInterest, yearlyPrincipal>>.
RECURSIVE YearSums(_, _, _, _)
YearSums(sched, i, endMonth, acc) ==
  IF i >= endMonth THEN acc
  ELSE IF i < Len(sched)
       THEN YearSums(sched, i + 1, endMonth,
                     <<FAdd(acc[1], sched[i + 1].interest),
                       FAdd(acc[2], sched[i + 1].principal)>>)
  ELSE YearSums(sched, i + 1, endMonth, acc)

\* Mutant of YearEndBalance: the row at index endMonth instead of
\* endMonth - 1 (the first row of the next year).
YearEndBalanceNextRow(sched, endMonth) ==
  IF endMonth + 1 <= Len(sched) THEN sched[endMonth + 1].remainingBalance ELSE Zero

\* The balance an annual row reports: that of the year's last monthly row.
YearEndBalance(sched, endMonth) ==
  IF endMonth <= Len(sched) THEN sched[endMonth].remainingBalance ELSE Zero

\* Mutant of YearRow: totalPayment as the sum of the months' totalPayment.
YearRowOfPayments(sched, yr) ==
  LET sums == YearSums(sched, (yr - 1) * 12, yr * 12, <<Zero, Zero>>)
  IN  [year |-> yr,
       principal |-> sums[2],
       interest |-> sums[1],
       totalPayment |-> FMul(sched[1].totalPayment, FromInt(12)),
       remainingBalance |-> YearEndBalance(sched, yr * 12)]

\* The row the annual loop pushes for year yr.
YearRow(sched, yr) ==
  LET sums == YearSums(sched, (yr - 1) * 12, yr * 12, <<Zero, Zero>>)
  IN  [year |-> yr,
       principal |-> sums[2],
       interest |-> sums[1],
       totalPayment |-> FAdd(sums[2], sums[1]),
       remainingBalance |-> YearEndBalance(sched, yr * 12)]

\* year <= years
AnnualLoopRuns == FLe(FromInt(year), years)

\* One iteration of the annual loop.
YearStep ==
  /\ pc = "annual"
  /\ AnnualLoopRuns
  /\ LET row == YearRow(monthlySchedule, year)
     IN  /\ annualSchedule' = Append(annualSchedule, row)
         /\ remainingBalance' = row.remainingBalance
  /\ year' = year + 1
  /\ UNCHANGED <<args, pc, principal, rate, years, monthlyRate, totalMonths,
                 monthlyPayment, annualPayment, month, totalInterestPaid,
                 monthlySchedule, result, calc1, result1>>
  /\ UNCHANGED beyond

\* Mutant of ResultOf: totalPaid as the payments made, monthlyPayment * rows.
ResultOfPayments(mp, ap, ti, p, ms, as) ==
  [monthlyPayment |-> mp, annualPayment |-> ap, totalInterest |-> ti,
   totalPaid |-> FMul(mp, FromInt(Len(ms))), monthlySchedule |-> ms,
   annualSchedule |-> as]

\* The object calculate returns after both loops.
ResultOf(mp, ap, ti, p, ms, as) ==
  [monthlyPayment |-> mp, annualPayment |-> ap, totalInterest |-> ti,
   totalPaid |-> FAdd(p, ti), monthlySchedule |-> ms, annualSchedule |-> as]

CalcReturn ==
  /\ pc = "annual"
  /\ ~AnnualLoopRuns
  /\ result' = ResultOf(monthlyPayment, annualPayment, totalInterestPaid,
                        principal, monthlySchedule, annualSchedule)
  /\ pc' = "returned"
  /\ UNCHANGED <<args, locals, calc1, result1>>
  /\ UNCHANGED beyond

\* ------------------------------------------ calculate, annual schedule only

\* Mutant of TwelveMonths: the balance is never set to 0.
RECURSIVE TwelveMonthsNoClamp(_, _, _, _)
TwelveMonthsNoClamp(mo, st, mp, mr) ==
  IF mo > 12 THEN st
  ELSE LET interestPayment  == FMul(st.bal, mr)
           principalPayment == FSub(mp, interestPayment)
       IN  TwelveMonthsNoClamp(mo + 1,
                               [bal |-> FSub(st.bal, principalPayment),
                                yi  |-> FAdd(st.yi, interestPayment),
                                yp  |-> FAdd(st.yp, principalPayment)],
                               mp, mr)

\* The inner loop of one year: months mo..12 applied to
\* st = [bal, yi, yp] (remainingBalance, yearlyInterest, yearlyPrincipal).
RECURSIVE TwelveMonths(_, _, _, _)
TwelveMonths(mo, st, mp, mr) ==
  IF mo > 12 THEN st
  ELSE LET interestPayment  == FMul(st.bal, mr)
           principalPayment == FSub(mp, interestPayment)
       IN  TwelveMonths(mo + 1,
                        [bal |-> Clamp(FSub(st.bal, principalPayment)),
                         yi  |-> FAdd(st.yi, interestPayment),
                         yp  |-> FAdd(st.yp, principalPayment)],
                        mp, mr)

\* Entry of the annual-only calculate, called with the same argument.
Calc1Enter ==
  /\ pc = "returned"
  /\ LET p  == Default(args.principal)
         r  == Default(args.rate)
         y  == Default(args.years)
         mr == MonthlyRateOf(r)
         mp == MonthlyPaymentOf(p, mr, TotalMonthsOf(y))
     IN  IF Rejects(p, r, y)
         THEN /\ result1' = EmptyResult1
              /\ pc' = "done"
              /\ calc1' = [calc1 EXCEPT !.principal = p, !.rate = r, !.years = y]
         ELSE /\ calc1' = [principal |-> p, rate |-> r, years |-> y,
                           monthlyRate |-> mr, monthlyPayment |-> mp,
                           annualPayment |-> AnnualPaymentOf(mp),
                           schedule |-> <<>>, remainingBalance |-> p,
                           totalInterestPaid |-> Zero, year |-> 1]
              /\ pc' = "annual1"
              /\ UNCHANGED result1
  /\ UNCHANGED <<args, locals, result>>
  /\ UNCHANGED beyond

\* year <= years
Annual1LoopRuns == FLe(FromInt(calc1.year), calc1.years)

\* One iteration of the year loop.
Year1Step ==
  /\ pc = "annual1"
  /\ Annual1LoopRuns
  /\ calc1.year <= MaxYears + 1
  /\ LET st == TwelveMonths(1, [bal |-> calc1.remainingBalance,
                                yi |-> Zero, yp |-> Zero],
                            calc1.monthlyPayment, calc1.monthlyRate)
     IN  calc1' = [calc1 EXCEPT
                     !.remainingBalance = st.bal,
                     !.totalInterestPaid = FAdd(@, st.yi),
                     !.schedule = Append(@, [year |-> calc1.year,
                                             principal |-> st.yp,
                                             interest |-> st.yi,
                                             totalPayment |-> FAdd(st.yp, st.yi),
                                             remainingBalance |-> st.bal]),
                     !.year = @ + 1]
  /\ UNCHANGED <<args, pc, locals, result, result1>>
  /\ UNCHANGED beyond

Calc1Return ==
  /\ pc = "annual1"
  /\ ~Annual1LoopRuns
  /\ result1' = [monthlyPayment |-> calc1.monthlyPayment,
                 annualPayment |-> calc1.annualPayment,
                 totalInterest |-> calc1.totalInterestPaid,
                 totalPaid |-> FAdd(calc1.principal, calc1.totalInterestPaid),
                 schedule |-> calc1.schedule]
  /\ pc' = "done"
  /\ UNCHANGED <<args, locals, calc1, result>>
  /\ UNCHANGED beyond

\* -------------------------------------------------------- specification

Next ==
  \/ CalcEnter
  \/ MonthStep
  \/ MonthExit
  \/ YearStep
  \/ CalcReturn
  \/ Calc1Enter
  \/ Year1Step
  \/ Calc1Return

Spec == Init /\ [][Next]_vars

\* ---------------------------------------------- validateInput, called alone

\* calculate is not running and has not been called.
EngineAtRest ==
  /\ args = [principal |-> Undefined, rate |-> Undefined, years |-> Undefined]
  /\ pc = "idle"
  /\ principal = Zero /\ rate = Zero /\ years = Zero
  /\ monthlyRate = Zero /\ totalMonths = Zero
  /\ monthlyPayment = Zero /\ annualPayment = Zero
  /\ month = 0 /\ year = 0
  /\ remainingBalance = Zero /\ totalInterestPaid = Zero
  /\ monthlySchedule = <<>> /\ annualSchedule = <<>>
  /\ result = NoResult /\ result1 = NoResult
  /\ calc1 = NoLocals

InitValidate ==
  /\ EngineAtRest
  /\ app = NoPage
  /\ deb = NoDebounce
  /\ live = NoLive
  /\ chart = NoChart
  /\ table = NoTable
  /\ validation \in [pc : {"call"}, field : FieldNames, value : FieldValues,
                     locale : Locales, ret : {Undefined}]

\* One call of validateInput, from entry to return.
ValidateCall ==
  /\ validation.pc = "call"
  /\ validation' =
       [validation EXCEPT
          !.pc = "returned",
          !.ret = ValidateInput(validation.field, validation.value,
                                validation.locale)]
  /\ UNCHANGED <<engine, app, deb, widgets>>

NextValidate == ValidateCall

SpecValidate == InitValidate /\ [][NextValidate]_vars

\* ------------------------------------------------------------ updateAll

\* The default locale of the host the page runs in.
HostLocale == "enUS"

\* errors[field] = message: an existing key keeps its place, a new key
\* comes last.
SetError(errs, field, message) ==
  IF \E i \in 1..Len(errs) : errs[i].field = field
  THEN [i \in 1..Len(errs) |->
          IF errs[i].field = field
          THEN [field |-> field, message |-> message]
          ELSE errs[i]]
  ELSE Append(errs, [field |-> field, message |-> message])

\* if (errors[key] === null) delete errors[key], for every key
DeleteNulls(errs) == SelectSeq(errs, LAMBDA e : e.message # Null)

\* validateAll sets the three fields of the module-level errors object to
\* the messages validateInput returned and deletes the nulls.
ErrorsSet(errs, messages) ==
  LET e1 == SetError(errs, "principal", messages.principal)
      e2 == SetError(e1, "rate", messages.rate)
      e3 == SetError(e2, "years", messages.years)
  IN  DeleteNulls(e3)

\* The module-level errors object after validateAll(inputs).
ErrorsAfterValidateAll(errs, inputs) ==
  ErrorsSet(errs,
            [principal |-> ValidateInput("principal", inputs.principal,
                                         HostLocale),
             rate      |-> ValidateInput("rate", inputs.rate, HostLocale),
             years     |-> ValidateInput("years", inputs.years, HostLocale)])

\* updateValidationSummary(): the list shown, aria-invalid and the focus.
AfterValidationSummary(page, errs) ==
  IF Len(errs) > 0
  THEN [page EXCEPT !.errors = errs,
                    !.summary = [i \in 1..Len(errs) |-> errs[i].message.text],
                    !.ariaInvalid = @ \cup {errs[1].field},
                    !.focus = errs[1].field]
  ELSE [page EXCEPT !.errors = errs,
                    !.summary = <<>>,
                    !.ariaInvalid = @ \ {"principal", "rate", "years"}]

\* The summary updateAll renders when validation fails.
ZeroSummary ==
  [monthlyPayment |-> Zero, annualPayment |-> Zero, totalInterest |-> Zero,
   totalPaid |-> Zero]

\* What renderResults destructures from its first argument.
SummaryOf(r) ==
  [monthlyPayment |-> r.monthlyPayment, annualPayment |-> r.annualPayment,
   totalInterest |-> r.totalInterest, totalPaid |-> r.totalPaid]

Call(fn, arg) == [fn |-> fn, arg |-> arg]

\* Mutant of UpdateAllBegin: the failed validation renders the zero summary
\* and the empty table but does not return.
UpdateAllBeginNoReturn ==
  /\ app.pc = "updateAll"
  /\ LET errs  == ErrorsAfterValidateAll(app.errors, app.inputs)
         page  == [AfterValidationSummary(app, errs) EXCEPT
                     !.calls = <<Call("validateAll", app.inputs)>>]
         shown == IF Len(errs) > 0
                  THEN [page EXCEPT
                          !.calls = @ \o <<Call("renderResults", ZeroSummary),
                                           Call("renderTable",
                                                [annualSchedule |-> <<>>])>>,
                          !.shown.results = ZeroSummary,
                          !.shown.table = [annualSchedule |-> <<>>]]
                  ELSE page
     IN  /\ app' = [shown EXCEPT
                      !.pc = "calculating",
                      !.calls = Append(@, Call("calculate", app.inputs))]
         /\ args' = app.inputs
         /\ pc' = "call"
         /\ result' = NoResult
         /\ UNCHANGED <<locals, calc1, result1>>
  /\ UNCHANGED <<validation, deb, widgets>>

\* updateAll(currentState) up to its call of calculate: validateAll, and on
\* a failed validation the zero summary, the empty table and the return.
UpdateAllBegin ==
  /\ app.pc = "updateAll"
  /\ LET errs == ErrorsAfterValidateAll(app.errors, app.inputs)
         page == [AfterValidationSummary(app, errs) EXCEPT
                    !.calls = <<Call("validateAll", app.inputs)>>]
     IN  IF Len(errs) > 0
         THEN /\ app' = [page EXCEPT
                           !.pc = "idle",
                           !.calls = @ \o <<Call("renderResults", ZeroSummary),
                                            Call("renderTable",
                                                 [annualSchedule |-> <<>>])>>,
                           !.shown.results = ZeroSummary,
                           !.shown.table = [annualSchedule |-> <<>>]]
              /\ UNCHANGED engine
         ELSE /\ app' = [page EXCEPT
                           !.pc = "calculating",
                           !.calls = Append(@, Call("calculate", app.inputs))]
              /\ args' = app.inputs
              /\ pc' = "call"
              /\ result' = NoResult
              /\ UNCHANGED <<locals, calc1, result1>>
  /\ UNCHANGED <<validation, deb, widgets>>

\* updateAll after calculate has returned: the four renderers.
UpdateAllRender ==
  /\ app.pc = "calculating"
  /\ pc = "returned"
  /\ LET isTableView == app.view = "table" \/ app.forceTable
     IN  app' = [app EXCEPT
                   !.pc = "idle",
                   !.calls = @ \o <<Call("renderResults", result),
                                    Call("renderTable", result),
                                    Call("renderEquations", result),
                                    IF isTableView
                                    THEN Call("destroyChart", Undefined)
                                    ELSE Call("renderChart", result)>>,
                   !.shown = [results |-> SummaryOf(result),
                              table |-> result,
                              equations |-> result,
                              chart |-> IF isTableView THEN Undefined ELSE result,
                              chartContainer |-> IF isTableView THEN "none"
                                                                ELSE "block",
                              tableContainer |-> IF isTableView THEN "block"
                                                                ELSE "none"]]
  /\ UNCHANGED <<engine, validation, deb, widgets>>

\* Values a field of state.inputs holds when updateAll runs: the input
\* handler stores only numbers > 0.
PagePrincipals ==
  {FromInt(1), Below(FromInt(1000)), FromInt(1000), FromInt(800000),
   Above(NumberOf(rules.principal.max)), PInf}

PageRates ==
  {TinyRate, NumberOf(rules.rate.min), FromInt(6), FromInt(20),
   FromInt(1200), PInf}

PageYears ==
  {Half, FromInt(1), OneAndHalf, FromInt(MaxYears),
   Above(NumberOf(rules.years.max)), PInf}

\* The page as init() calls updateAll(state).
InitUpdate ==
  /\ EngineAtRest
  /\ validation = NotValidating
  /\ deb = NoDebounce
  /\ live = NoLive
  /\ chart = NoChart
  /\ table = NoTable
  /\ \E p \in PagePrincipals, r \in PageRates, y \in PageYears,
        v \in {"chart", "table"}, narrow \in BOOLEAN :
       app = [NoPage EXCEPT
                !.pc = "updateAll",
                !.inputs = [principal |-> p, rate |-> r, years |-> y],
                !.view = v,
                !.forceTable = narrow,
                !.focus = IF v = "chart" THEN "view-chart-btn"
                                         ELSE "view-table-btn"]

NextUpdate ==
  \/ UpdateAllBegin
  \/ CalcEnter
  \/ MonthStep
  \/ MonthExit
  \/ YearStep
  \/ CalcReturn
  \/ UpdateAllRender

SpecUpdate == InitUpdate /\ [][NextUpdate]_vars

\* ------------------------------------------------- a debounced function

\* Arguments the debounced function is called with.
DebounceArgs == {"principal", "rate"}

\* clearTimeout(id): the timer with that id, if any, is dropped.
ClearTimeout(timers, id) == {t \in timers : t.id # id}

\* Mutant of DebouncedCall: without the clearTimeout.
DebouncedCallNoClear(a) ==
  /\ deb.nCalls < MaxCalls
  /\ deb.now + Wait <= MaxTime
  /\ deb' = [deb EXCEPT
               !.timers = @ \cup {[id |-> deb.nextId, due |-> deb.now + Wait,
                                   args |-> a]},
               !.timeout = deb.nextId,
               !.nextId = @ + 1,
               !.nCalls = @ + 1,
               !.lastCall = [at |-> deb.now, args |-> a],
               !.runsSinceCall = 0]
  /\ UNCHANGED <<engine, validation, app, widgets>>

\* One call of the debounced function with argument a:
\* clearTimeout(timeout); timeout = setTimeout(() => fn(a), wait).
DebouncedCall(a) ==
  /\ deb.nCalls < MaxCalls
  /\ deb.now + Wait <= MaxTime
  /\ deb' = [deb EXCEPT
               !.timers = ClearTimeout(@, deb.timeout)
                            \cup {[id |-> deb.nextId, due |-> deb.now + Wait,
                                   args |-> a]},
               !.timeout = deb.nextId,
               !.nextId = @ + 1,
               !.nCalls = @ + 1,
               !.lastCall = [at |-> deb.now, args |-> a],
               !.runsSinceCall = 0]
  /\ UNCHANGED <<engine, validation, app, widgets>>

\* A timer whose delay has elapsed runs its callback, () => fn(a).
TimerFires(t) ==
  /\ t \in deb.timers
  /\ deb.now >= t.due
  /\ deb' = [deb EXCEPT
               !.timers = @ \ {t},
               !.runsSinceCall = @ + 1,
               !.lastRun = [at |-> deb.now, args |-> t.args]]
  /\ UNCHANGED <<engine, validation, app, widgets>>

\* 100 ms pass.  A timer that is due need not have run yet.
Tick ==
  /\ deb.now < MaxTime
  /\ deb' = [deb EXCEPT !.now = @ + 1]
  /\ UNCHANGED <<engine, validation, app, widgets>>

SomeTimerFires == \E t \in deb.timers : TimerFires(t)

InitDebounce ==
  /\ EngineAtRest
  /\ validation = NotValidating
  /\ app = NoPage
  /\ deb = NoDebounce
  /\ live = NoLive
  /\ chart = NoChart
  /\ table = NoTable

NextDebounce ==
  \/ \E a \in DebounceArgs : DebouncedCall(a)
  \/ SomeTimerFires
  \/ Tick

SpecDebounce == InitDebounce /\ [][NextDebounce]_vars

\* The event loop runs every timer that stays due, and time passes.
SpecDebounceFair ==
  SpecDebounce /\ WF_vars(SomeTimerFires) /\ WF_vars(Tick)

\* ------------------------------------------------ the page's handlers

\* The two versions of the page's entry point.
Builds == {"calculator.js", "part_005"}

\* window.innerWidth <= 768 (calculator.js), <= 600 (part_005)
IsNarrow(build, w) == w <= (IF build = "part_005" THEN 600 ELSE 768)

\* Widths the window takes.
Widths == {600, 1024}

\* state.inputs as state.js creates it, 800000 / 6 / 30, with the term cut
\* down to MaxYears.
DefaultInputs ==
  [principal |-> FromInt(800000), rate |-> FromInt(6),
   years |-> FromInt(MaxYears)]

\* Texts of the input elements, as sequences of characters.
FieldTexts ==
  [principal |-> {<<>>, <<"a", "b", "c">>, <<"-", "5">>, <<"5", "0", "0">>,
                  <<"1", ",", "0", "0", "0">>},
   rate      |-> {<<"0">>, <<" ", "2", "0", " ">>, <<"2", ",", "5">>},
   years     |-> {<<"-", "1">>, <<"1", ".", "0">>, <<".">>}]

DigitValue ==
  [c \in {"0", "1", "2", "3", "4", "5", "6", "7", "8", "9"} |->
     CASE c = "0" -> 0 [] c = "1" -> 1 [] c = "2" -> 2 [] c = "3" -> 3
       [] c = "4" -> 4 [] c = "5" -> 5 [] c = "6" -> 6 [] c = "7" -> 7
       [] c = "8" -> 8 [] c = "9" -> 9]

AllDigits(s) == \A i \in 1..Len(s) : s[i] \in DOMAIN DigitValue

RECURSIVE IntOfDigits(_)
IntOfDigits(s) ==
  IF s = <<>> THEN 0
  ELSE 10 * IntOfDigits(SubSeq(s, 1, Len(s) - 1)) + DigitValue[s[Len(s)]]

RECURSIVE TrimLeft(_)
TrimLeft(s) == IF s # <<>> /\ Head(s) = " " THEN TrimLeft(Tail(s)) ELSE s

RECURSIVE TrimRight(_)
TrimRight(s) ==
  IF s # <<>> /\ s[Len(s)] = " " THEN TrimRight(SubSeq(s, 1, Len(s) - 1))
  ELSE s

\* The value of an unsigned decimal literal, digits with at most one point
\* and at least one digit; NaN for any other text.
UnsignedDecimal(s) ==
  IF AllDigits(s)
  THEN IF s = <<>> THEN NaN ELSE FromInt(IntOfDigits(s))
  ELSE LET points == {i \in 1..Len(s) : s[i] = "."}
       IN  IF Cardinality(points) # 1 THEN NaN
           ELSE LET p    == CHOOSE i \in points : TRUE
                    int  == SubSeq(s, 1, p - 1)
                    frac == SubSeq(s, p + 1, Len(s))
                IN  IF ~AllDigits(int) \/ ~AllDigits(frac) \/ Len(s) = 1
                    THEN NaN
                    ELSE FDiv(FromInt(IntOfDigits(int \o frac)),
                              FromInt(10 ^ Len(frac)))

\* Number(text) for a text of spaces, a sign, digits and a point: white
\* space is trimmed, the empty text is 0, anything that is not a decimal
\* literal is NaN.
NumberFromText(s) ==
  LET t == TrimRight(TrimLeft(s))
  IN  IF t = <<>> THEN Zero
      ELSE IF Head(t) = "-" THEN FNeg(UnsignedDecimal(Tail(t)))
      ELSE IF Head(t) = "+" THEN UnsignedDecimal(Tail(t))
      ELSE UnsignedDecimal(t)

\* element.value.replace(/,/g, '')
StripCommas(s) == SelectSeq(s, LAMBDA c : c # ",")

\* The text the handler of field id parses: part_005 strips the commas of
\* the principal.
RawValue(build, id, text) ==
  IF build = "part_005" /\ id = "principal" THEN StripCommas(text) ELSE text

\* The numbers the handlers parse out of the texts, by build and field.
ParsedTexts ==
  [b \in Builds |->
     [id \in DOMAIN FieldTexts |->
        [text \in FieldTexts[id] |-> NumberFromText(RawValue(b, id, text))]]]

\* The values a field of state.inputs takes on the page: the default and
\* the parsed numbers.
ValuesOnPage ==
  [id \in DOMAIN FieldTexts |->
     {DefaultInputs[id]}
       \cup {ParsedTexts[b][id][text] : b \in Builds, text \in FieldTexts[id]}]

\* validateInput(field, value) for each of these values.
ValidateInputOnPage ==
  [id \in DOMAIN FieldTexts |->
     [v \in ValuesOnPage[id] |-> ValidateInput(id, v, HostLocale)]]

\* What calculate returns for these inputs, as far as the page's own
\* state goes: the renderers keep what they are given.
Calculated(inputs) == [calculate |-> inputs]

\* validateAll(inputs) on the page, validateInput read off `messages`.
PageErrors(messages, errs, inputs) ==
  ErrorsSet(errs, [principal |-> messages.principal[inputs.principal],
                   rate      |-> messages.rate[inputs.rate],
                   years     |-> messages.years[inputs.years]])

\* updateAll once validateAll has left `errs` and the summary is updated
\* (p1): either the zero summary and the empty table, or calculate, the
\* three renderers and the two containers.
UpdateAllRenders(page, p1, errs) ==
  IF Len(errs) > 0
  THEN [p1 EXCEPT
          !.calls = @ \o <<Call("renderResults", ZeroSummary),
                           Call("renderTable", [annualSchedule |-> <<>>])>>,
          !.shown.results = ZeroSummary,
          !.shown.table = [annualSchedule |-> <<>>]]
  ELSE LET res == Calculated(page.inputs)
           isTableView == page.view = "table" \/ page.forceTable
       IN  [p1 EXCEPT
              !.calls = @ \o <<Call("calculate", page.inputs),
                               Call("renderResults", res),
                               Call("renderTable", res),
                               Call("renderEquations", res),
                               IF isTableView
                               THEN Call("destroyChart", Undefined)
                               ELSE Call("renderChart", res)>>,
              !.shown = [results |-> res, table |-> res, equations |-> res,
                         chart |-> IF isTableView THEN Undefined ELSE res,
                         chartContainer |-> IF isTableView THEN "none"
                                                           ELSE "block",
                         tableContainer |-> IF isTableView THEN "block"
                                                           ELSE "none"]]

\* updateAll with the errors validateAll leaves.
UpdateAllWith(page, errs) ==
  UpdateAllRenders(page,
                   [AfterValidationSummary(page, errs) EXCEPT
                      !.calls = <<Call("validateAll", page.inputs)>>],
                   errs)

\* updateAll(currentState), called as a listener.
UpdateAll(page) ==
  UpdateAllWith(page,
                PageErrors(ValidateInputOnPage, page.errors, page.inputs))

\* setState(updates): Object.assign(state, updates), then every listener is
\* called; subscribe(updateAll) is the only subscription.
SetState(page, updates) ==
  UpdateAll([page EXCEPT
               !.inputs = IF "inputs" \in DOMAIN updates THEN updates.inputs
                                                         ELSE @,
               !.view = IF "view" \in DOMAIN updates THEN updates.view ELSE @,
               !.notified = @ + 1])

\* updateButtonStates()
UpdateButtonStates(page) ==
  LET isTable == page.view = "table" \/ page.forceTable
  IN  [page EXCEPT !.pressed = IF isTable THEN "table" ELSE "chart",
                   !.chartDisabled = page.forceTable]

\* detectNarrowScreen()
DetectNarrowScreenOn(page) ==
  IF IsNarrow(page.build, page.width)
  THEN LET forced == [page EXCEPT !.forceTable = TRUE]
       IN  UpdateButtonStates(IF page.view # "table"
                              THEN SetState(forced, [view |-> "table"])
                              ELSE forced)
  ELSE UpdateButtonStates([page EXCEPT !.forceTable = FALSE])

\* The page is loaded and no handler is running.
Idle == app.pc = "idle"

\* A handler starts: it has notified no listener and made no call yet.
Entered(page) == [page EXCEPT !.notified = 0, !.calls = <<>>]

\* The difference above which a change of an input is announced.
AnnounceEpsilon == FDiv(FromInt(1), FromInt(100))

\* Math.abs(value - last) > 0.01
Differ(value, last) ==
  FLt(AnnounceEpsilon, FSub(value, last))
    \/ FLt(AnnounceEpsilon, FSub(last, value))

\* The handler after setState: the change is announced when it differs
\* from the last one announced (announceChange is debounced, 500 ms).
Announced(page, id, value) ==
  IF Differ(value, page.lastAnnounced[id])
  THEN [page EXCEPT !.calls = Append(@, Call("announceChange", <<id, value>>)),
                    !.lastAnnounced[id] = value]
  ELSE page

\* init(): setupViewToggle (the buttons, the focus), detectNarrowScreen,
\* updateAll(state).
InitRuns ==
  /\ app.pc = "unloaded"
  /\ \E p0 \in {[UpdateButtonStates([app EXCEPT !.inputs = DefaultInputs])
                    EXCEPT !.focus = "view-chart-btn"]} :
       \E p1 \in {DetectNarrowScreenOn(p0)} :
         app' = [UpdateAll(p1) EXCEPT !.pc = "idle"]
  /\ UNCHANGED <<engine, validation, deb, widgets>>

\* Mutant of UpdateValueRuns: the parsed value is stored unguarded.
UpdateValueRunsUnguarded(id, text) ==
  /\ Idle
  /\ \E value \in {ParsedTexts[app.build][id][text]} :
       \E p \in {SetState(Entered(app),
                          [inputs |-> [app.inputs EXCEPT ![id] = value]])} :
         app' = Announced(p, id, value)
  /\ UNCHANGED <<engine, validation, deb, widgets>>

\* The debounced handler of input `id` runs, the element holding `text`.
UpdateValueRuns(id, text) ==
  /\ Idle
  /\ \E value \in {ParsedTexts[app.build][id][text]} :
       IF ~IsNaN(value) /\ FLt(Zero, value)
       THEN \E p \in {SetState(Entered(app),
                               [inputs |-> [app.inputs EXCEPT ![id] = value]])} :
              app' = Announced(p, id, value)
       ELSE app' = Entered(app)
  /\ UNCHANGED <<engine, validation, deb, widgets>>

\* A click on the chart button (a disabled button dispatches no click).
\* part_005 turns it into the table view while the table is forced.
ChartButtonClick ==
  /\ Idle
  /\ ~app.chartDisabled
  /\ \E blocked \in {app.build = "part_005"
                        /\ (app.forceTable \/ app.chartDisabled)} :
       \E p \in {SetState(Entered(app),
                          [view |-> IF blocked THEN "table" ELSE "chart"])} :
         app' = UpdateButtonStates(p)
  /\ UNCHANGED <<engine, validation, deb, widgets>>

\* A click on the table button.
TableButtonClick ==
  /\ Idle
  /\ \E p \in {SetState(Entered(app), [view |-> "table"])} :
       app' = UpdateButtonStates(p)
  /\ UNCHANGED <<engine, validation, deb, widgets>>

ButtonId(b) == IF b = "chart" THEN "view-chart-btn" ELSE "view-table-btn"

\* The other toggle button.
OtherButton(b) == IF b = "chart" THEN "table" ELSE "chart"

\* nextBtn.focus(): a disabled button takes no focus.
FocusMoved(page, next) ==
  [page EXCEPT !.focus = IF next = "chart" /\ page.chartDisabled
                         THEN @ ELSE ButtonId(next)]

\* A keydown on a toggle button, which then has the focus (a disabled
\* button takes none): an arrow key moves the focus to the other button and
\* sets the view to it.
ToggleKeydown(btn, key) ==
  /\ Idle
  /\ ~(btn = "chart" /\ app.chartDisabled)
  /\ \E here \in {[Entered(app) EXCEPT !.focus = ButtonId(btn)]} :
       IF key \in {"ArrowRight", "ArrowLeft"}
       THEN \E p \in {SetState(FocusMoved(here, OtherButton(btn)),
                               [view |-> OtherButton(btn)])} :
              app' = UpdateButtonStates(p)
       ELSE app' = here
  /\ UNCHANGED <<engine, validation, deb, widgets>>

\* A click on the skip link.  (The timer it sets scrolls to the table and
\* focuses it; where the focus is then is not followed.)
SkipLinkClick ==
  /\ Idle
  /\ \E p \in {SetState(Entered(app), [view |-> "table"])} :
       app' = UpdateButtonStates(p)
  /\ UNCHANGED <<engine, validation, deb, widgets>>

\* The window takes another width; the resize listener is debounced.
WindowResizes(w) ==
  /\ Idle
  /\ w # app.width
  /\ app' = [Entered(app) EXCEPT !.width = w, !.resized = TRUE]
  /\ UNCHANGED <<engine, validation, deb, widgets>>

\* detectNarrowScreen runs, 200 ms after the last resize.
DetectNarrowScreen ==
  /\ Idle
  /\ app.resized
  /\ \E p \in {[Entered(app) EXCEPT !.resized = FALSE]} :
       app' = DetectNarrowScreenOn(p)
  /\ UNCHANGED <<engine, validation, deb, widgets>>

Keys == {"ArrowRight", "ArrowLeft", "Enter"}

InitPage ==
  /\ EngineAtRest
  /\ validation = NotValidating
  /\ deb = NoDebounce
  /\ live = NoLive
  /\ chart = NoChart
  /\ table = NoTable
  /\ \E b \in Builds, w \in Widths :
       app = [NoPage EXCEPT !.build = b, !.width = w]

NextPage ==
  \/ InitRuns
  \/ \E id \in DOMAIN FieldTexts : \E text \in FieldTexts[id] :
       UpdateValueRuns(id, text)
  \/ ChartButtonClick
  \/ TableButtonClick
  \/ \E btn \in {"chart", "table"}, key \in Keys : ToggleKeydown(btn, key)
  \/ SkipLinkClick
  \/ \E w \in Widths : WindowResizes(w)
  \/ DetectNarrowScreen

SpecPage == InitPage /\ [][NextPage]_vars

\* ------------------------------------------------ the live regions

\* The most timers pending at once.
MaxTimers == 2

\* The delays of the timers, in ms: the debounce of announceChange, the
\* throttle of announceBar, and the timers that clear the regions.
AnnounceWait == 500

BarWait == 150

ChangeClear == 1500

ResultClear == 2000

BarClear == 2000

\* Times the user lets pass between two events, in ms.
Pauses == {100, 1000}

\* setTimeout(() => region.textContent = '', delay); `replaced` records
\* that a later message was written to the region, `nulls` that the
\* callback also sets announceTimeout to null.
ClearTimer(region, delay, nulls) ==
  [kind |-> "clear", region |-> region, left |-> delay, replaced |-> FALSE,
   nulls |-> nulls, held |-> FALSE]

\* The timer of the debounced announceChange.
DebounceTimer ==
  [kind |-> "debounce", region |-> "result", left |-> AnnounceWait,
   replaced |-> FALSE, nulls |-> FALSE, held |-> FALSE]

\* The timer of announceBar; `held`: announceTimeout is its id.
ThrottleTimer ==
  [kind |-> "throttle", region |-> "chart", left |-> BarWait,
   replaced |-> FALSE, nulls |-> FALSE, held |-> TRUE]

\* region.textContent = msg; setTimeout(() => region.textContent = '', delay)
Written(l, region, msg, delay, nulls) ==
  [l EXCEPT
     !.text[region] = msg,
     !.timers = {IF t.kind = "clear" /\ t.region = region
                 THEN [t EXCEPT !.replaced = TRUE] ELSE t : t \in @}
                  \cup {ClearTimer(region, delay, nulls)}]

\* announceChange(id, value): the debounce clears its pending timer and
\* sets a new one.
AnnounceChangeCalled(l) ==
  [l EXCEPT !.timers = {t \in @ : t.kind # "debounce"} \cup {DebounceTimer}]

\* The handler of an input has stored a value: renderResults announces the
\* monthly payment when it changed by more than 0.01, and the handler calls
\* announceChange when the value differs from the last one announced.
UpdateValueAnnounces(paymentChanged, significant) ==
  /\ paymentChanged \/ significant
  /\ Cardinality(live.timers) < MaxTimers
  /\ \E l1 \in {IF paymentChanged
                THEN Written(live, "result", "payment", ResultClear, FALSE)
                ELSE live} :
       live' = IF significant THEN AnnounceChangeCalled(l1) ELSE l1
  /\ UNCHANGED <<engine, validation, app, deb, chart, table>>

\* The debounced announceChange runs.
AnnounceChangeRuns ==
  /\ \E t \in live.timers :
       /\ t.kind = "debounce" /\ t.left = 0
       /\ live' = Written([live EXCEPT !.timers = @ \ {t}],
                          "result", "changed", ChangeClear, FALSE)
  /\ UNCHANGED <<engine, validation, app, deb, chart, table>>

\* announceBar(row, index, isTableFocus)
BarAnnounced(l, isTableFocus) ==
  IF isTableFocus
  THEN Written(l, "chart", "table focus", BarClear, FALSE)
  ELSE [l EXCEPT
          !.timers = {t \in @ : ~(l.announceTimeout = "pending" /\ t.held)}
                       \cup {ThrottleTimer},
          !.announceTimeout = "pending"]

\* A call of announceBar, from a key on the chart.
AnnounceBar(isTableFocus) ==
  /\ Cardinality(live.timers) < MaxTimers
  /\ live' = BarAnnounced(live, isTableFocus)
  /\ UNCHANGED <<engine, validation, app, deb, chart, table>>

\* The timer of announceBar runs: the row is announced.
ThrottleFires ==
  /\ \E t \in live.timers :
       /\ t.kind = "throttle" /\ t.left = 0
       /\ live' = Written([live EXCEPT
                             !.timers = @ \ {t},
                             !.announceTimeout =
                               IF t.held THEN "fired" ELSE @],
                          "chart", "bar", BarClear, TRUE)
  /\ UNCHANGED <<engine, validation, app, deb, chart, table>>

\* A timer that clears a region runs.
ClearFires(t) ==
  /\ t \in live.timers
  /\ t.kind = "clear" /\ t.left = 0
  /\ live' = [live EXCEPT
                !.text[t.region] = "",
                !.timers = IF t.nulls
                           THEN {[u EXCEPT !.held = FALSE] : u \in @ \ {t}}
                           ELSE @ \ {t},
                !.announceTimeout = IF t.nulls THEN "null" ELSE @]
  /\ UNCHANGED <<engine, validation, app, deb, chart, table>>

\* d ms pass: a pause of the user, or the time to the next timer; no timer
\* that is due is left waiting.
Elapse(d) ==
  /\ live.timers # {}
  /\ \A t \in live.timers : d <= t.left
  /\ d > 0
  /\ live' = [live EXCEPT !.timers = {[t EXCEPT !.left = @ - d] : t \in @}]
  /\ UNCHANGED <<engine, validation, app, deb, chart, table>>

InitLive ==
  /\ EngineAtRest
  /\ validation = NotValidating
  /\ app = NoPage
  /\ deb = NoDebounce
  /\ live = NoLive
  /\ chart = NoChart
  /\ table = NoTable

NextLive ==
  \/ \E paymentChanged \in BOOLEAN, significant \in BOOLEAN :
       UpdateValueAnnounces(paymentChanged, significant)
  \/ AnnounceChangeRuns
  \/ \E isTableFocus \in BOOLEAN : AnnounceBar(isTableFocus)
  \/ ThrottleFires
  \/ \E t \in live.timers : ClearFires(t)
  \/ \E d \in Pauses \cup {t.left : t \in live.timers} : Elapse(d)

SpecLive == InitLive /\ [][NextLive]_vars

\* ------------------------------------------------ the chart

\* The most calls of renderChart in a run.
MaxRenders == 2

\* Terms of the schedules given to renderChart, in years.
Terms == {0, 1, 15, 16, 31}

\* The rows of a schedule of n months as calculate numbers them; the chart's
\* keys and labels use no other field.
ChartRows(n) ==
  [mo \in 1..n |-> [month |-> mo, year |-> (mo + 11) \div 12,
                    monthInYear |-> ((mo - 1) % 12) + 1]]

\* const labels = monthlySchedule.map(...): `Y${row.year}` or ''.  years is
\* monthlySchedule.length / 12; the test years > 30 comes after the test
\* years > 15.
LabelsOf(schedule) ==
  LET length == Len(schedule)
      showEveryNYears == IF length > 15 * 12 THEN 2
                         ELSE IF length > 30 * 12 THEN 3
                         ELSE 1
  IN  [idx \in 1..length |->
         LET row == schedule[idx]
         IN  IF row.monthInYear = 1 /\ row.year % showEveryNYears = 0
             THEN <<"Y", row.year>> ELSE <<>>]

\* The labels of the schedule of each term.
LabelsOfTerm == [y \in Terms |-> LabelsOf(ChartRows(12 * y))]

\* renderChart({ monthlySchedule }, inputs): nothing for an empty schedule;
\* else currentIndex = 0, a new chart, and setupKeyboardNavigation adds a
\* keydown listener, closed over this schedule, to the canvas.
RenderChart(term) ==
  /\ Len(chart.listeners) < MaxRenders
  /\ IF term = 0
     THEN chart' = chart
     ELSE chart' = [drawn |-> TRUE, labels |-> LabelsOfTerm[term],
                    length |-> 12 * term, currentIndex |-> 0,
                    listeners |-> Append(chart.listeners, 12 * term),
                    highlighted |-> 0 - 1]
  /\ UNCHANGED <<engine, validation, app, deb, live, table>>

\* destroyChart()
DestroyChart ==
  /\ chart.drawn
  /\ chart' = [chart EXCEPT !.drawn = FALSE, !.labels = <<>>,
                            !.highlighted = 0 - 1]
  /\ UNCHANGED <<engine, validation, app, deb, live, table>>

Min(a, b) == IF a <= b THEN a ELSE b

\* The switch of a keydown listener whose schedule has `length` rows.
NewIndex(key, currentIndex, length) ==
  LET maxIndex == length - 1
  IN  CASE key = "ArrowRight" -> Min(currentIndex + 1, maxIndex)
        [] key = "ArrowLeft"  -> Max(currentIndex - 1, 0)
        [] key = "PageDown"   -> Min(currentIndex + 12, maxIndex)
        [] key = "PageUp"     -> Max(currentIndex - 12, 0)
        [] key = "Home"       -> 0
        [] key = "End"        -> maxIndex
        [] OTHER              -> currentIndex

\* One keydown listener of the canvas runs, on the pair of the chart and
\* the live regions.
ListenerRuns(cl, key, length) ==
  IF key = "t"
  THEN [cl EXCEPT !.live = BarAnnounced(@, TRUE)]
  ELSE IF NewIndex(key, cl.chart.currentIndex, length) # cl.chart.currentIndex
  THEN [chart |-> [cl.chart EXCEPT
                     !.currentIndex = NewIndex(key, @, length),
                     !.highlighted = NewIndex(key, cl.chart.currentIndex,
                                              length)],
        live  |-> BarAnnounced(cl.live, FALSE)]
  ELSE cl

\* The listeners of the canvas run in the order they were added.
RECURSIVE ListenersRun(_, _, _)
ListenersRun(cl, key, listeners) ==
  IF listeners = <<>> THEN cl
  ELSE \* one listener, then the rest
       ListenersRun(ListenerRuns(cl, key, Head(listeners)), key,
                    Tail(listeners))

ChartKeys == {"ArrowRight", "ArrowLeft", "PageDown", "PageUp", "Home", "End",
              "t"}

\* A keydown on the canvas of the chart that is displayed.
CanvasKeydown(key) ==
  /\ chart.drawn
  /\ \E cl \in {ListenersRun([chart |-> chart, live |-> live], key,
                             chart.listeners)} :
       /\ chart' = cl.chart
       /\ live' = cl.live
  /\ UNCHANGED <<engine, validation, app, deb, table>>

\* The canvas takes the focus.
CanvasFocus ==
  /\ chart.drawn
  /\ chart' = [chart EXCEPT !.highlighted = chart.currentIndex]
  /\ UNCHANGED <<engine, validation, app, deb, live, table>>

InitChart ==
  /\ EngineAtRest
  /\ validation = NotValidating
  /\ app = NoPage
  /\ deb = NoDebounce
  /\ live = NoLive
  /\ chart = NoChart
  /\ table = NoTable

NextChart ==
  \/ \E term \in Terms : RenderChart(term)
  \/ DestroyChart
  \/ \E key \in ChartKeys : CanvasKeydown(key)
  \/ CanvasFocus

SpecChart == InitChart /\ [][NextChart]_vars

\* ------------------------------------------------ the table

\* The two versions of the table module.
TableVersions == {"part_002", "part_000"}

\* Terms of the schedules given to renderTable, in years.
TableTerms == {0, 1, 10}

\* The time after which announceToScreenReader clears #table-announcement.
TableClear == 2000

DigitChars == <<"0", "1", "2", "3", "4", "5", "6", "7", "8", "9">>

\* `${n}` for a whole number n >= 0, as a sequence of characters.
RECURSIVE DigitsOf(_)
DigitsOf(n) ==
  IF n < 10 THEN <<DigitChars[n + 1]>>
  ELSE DigitsOf(n \div 10) \o <<DigitChars[(n % 10) + 1]>>

\* Texts are sequences of pieces: a digit, a '-', or a run of other
\* characters.
\* `months-${row.year}`
MonthRowsId(y) == <<"months", "-">> \o DigitsOf(y)

\* `${monthRowsId}-${month.monthInYear}`
MonthRowId(y, m) == MonthRowsId(y) \o <<"-">> \o DigitsOf(m)

\* The aria-label of a new expand button.
ExpandLabel(version, y) ==
  IF version = "part_002" THEN <<"Expand", " year ">> \o DigitsOf(y)
  ELSE <<"Expand", " to show monthly details for year ">> \o DigitsOf(y)

\* s.startsWith(p), the test of the selector [id^="p"]
StartsWith(s, p) == Len(p) <= Len(s) /\ SubSeq(s, 1, Len(p)) = p

\* label.match(/\d+/)[0]: the first run of digits.
FirstDigits(label) ==
  LET digits == {i \in 1..Len(label) : label[i] \in DOMAIN DigitValue}
      first  == CHOOSE i \in digits : \A j \in digits : i <= j
      last   == CHOOSE i \in digits :
                  /\ \A j \in first..i : j \in digits
                  /\ i + 1 \notin digits
  IN  SubSeq(label, first, last)

\* targetId.split('-')[1]: what stands between the first '-' and the next.
SecondPiece(targetId) ==
  LET dashes == {i \in 1..Len(targetId) : targetId[i] = "-"}
      d1     == CHOOSE i \in dashes : \A j \in dashes : i <= j
      later  == {i \in dashes : i > d1}
      d2     == IF later = {} THEN Len(targetId) + 1
                ELSE CHOOSE i \in later : \A j \in later : i <= j
  IN  SubSeq(targetId, d1 + 1, d2 - 1)

\* The <tr class="year-row"> of a year, with its expand button.
YearRowOf(version, y, hasMonthlyData) ==
  [year |-> y, button |-> hasMonthlyData, expanded |-> "false",
   controls |-> IF version = "part_000" THEN MonthRowsId(y) ELSE <<>>,
   label |-> ExpandLabel(version, y), icon |-> "right"]

\* The <tr class="month-row" hidden> of a month.
MonthRowOf(row) ==
  [id |-> MonthRowId(row.year, row.monthInYear), year |-> row.year,
   monthInYear |-> row.monthInYear, hidden |-> TRUE]

\* tbody.innerHTML for a schedule of `term` years: per annual row the year
\* row, and the month rows of monthsByYear[row.year].
TableBody(version, term) ==
  LET rows == ChartRows(12 * term)
      monthsByYear(y) == SelectSeq(rows, LAMBDA r : r.year = y)
  IN  [yearRows  |-> [y \in 1..term |->
                        YearRowOf(version, y, Len(monthsByYear(y)) > 0)],
       monthRows |-> [i \in 1..Len(rows) |-> MonthRowOf(rows[i])]]

\* The table bodies of the terms, by version.
TableBodies ==
  [version \in TableVersions |->
     [term \in TableTerms |-> TableBody(version, term)]]

\* renderTable({ annualSchedule, monthlySchedule })
RenderTable(term) ==
  /\ table' = IF term = 0
              THEN [table EXCEPT !.body = "No data available",
                                 !.yearRows = <<>>, !.monthRows = <<>>,
                                 !.focus = 0]
              ELSE [table EXCEPT
                      !.body = "rows",
                      !.yearRows = TableBodies[table.version][term].yearRows,
                      !.monthRows = TableBodies[table.version][term].monthRows,
                      !.focus = 0]
  /\ UNCHANGED <<engine, validation, app, deb, live, chart>>

\* The year number toggleMonthlyRows reads off the button.
YearNumOf(version, button) ==
  IF version = "part_002" THEN FirstDigits(button.label)
  ELSE SecondPiece(button.controls)

\* The id the month rows of the button start with, the '-' excluded.
TargetIdOf(version, button) ==
  IF version = "part_002" THEN <<"months", "-">> \o FirstDigits(button.label)
  ELSE button.controls

\* Mutant of Toggled: the selector is [id^="${targetId}"].
ToggledByLoosePrefix(t, i) ==
  LET button   == t.yearRows[i]
      expanded == button.expanded = "true"
      selected(row) == StartsWith(row.id, TargetIdOf(t.version, button))
  IN  [t EXCEPT
         !.yearRows[i].expanded = IF expanded THEN "false" ELSE "true",
         !.yearRows[i].label =
           IF t.version = "part_002"
           THEN <<IF expanded THEN "Expand" ELSE "Collapse", " year ">>
                  \o YearNumOf(t.version, button)
           ELSE [@ EXCEPT ![1] = IF expanded THEN "Expand" ELSE "Collapse"],
         !.yearRows[i].icon = IF expanded THEN "right" ELSE "down",
         !.monthRows = [k \in 1..Len(@) |->
                          IF selected(@[k])
                          THEN [@[k] EXCEPT !.hidden = expanded]
                          ELSE @[k]]]

\* toggleMonthlyRows(button), on the table: the rows the selector
\* [id^="${targetId}-"] finds are hidden or shown.
Toggled(t, i) ==
  LET button   == t.yearRows[i]
      expanded == button.expanded = "true"
      selected(row) ==
        StartsWith(row.id, TargetIdOf(t.version, button) \o <<"-">>)
  IN  [t EXCEPT
         !.yearRows[i].expanded = IF expanded THEN "false" ELSE "true",
         !.yearRows[i].label =
           IF t.version = "part_002"
           THEN <<IF expanded THEN "Expand" ELSE "Collapse", " year ">>
                  \o YearNumOf(t.version, button)
           ELSE [@ EXCEPT ![1] = IF expanded THEN "Expand" ELSE "Collapse"],
         !.yearRows[i].icon = IF expanded THEN "right" ELSE "down",
         !.monthRows = [k \in 1..Len(@) |->
                          IF selected(@[k])
                          THEN [@[k] EXCEPT !.hidden = expanded]
                          ELSE @[k]]]

\* The message of toggleMonthlyRows.
ToggleMessage(t, i) ==
  <<"Year">> \o YearNumOf(t.version, t.yearRows[i])
    \o <<IF t.yearRows[i].expanded = "true" THEN "collapsed" ELSE "expanded">>

\* A click on the expand button of year row i, which takes the focus.
ExpandClick(i) ==
  /\ i \in 1..Len(table.yearRows)
  /\ table.yearRows[i].button
  /\ table' = [Toggled(table, i) EXCEPT !.focus = i]
  /\ live' = Written(live, "table", ToggleMessage(table, i), TableClear, FALSE)
  /\ UNCHANGED <<engine, validation, app, deb, chart>>

\* handleTableNavigation(e, currentButton): the index of the button that
\* takes the focus, the buttons counted from 0.
TargetIndex(key, currentIndex, count) ==
  CASE key = "Home"      -> 0
    [] key = "End"       -> count - 1
    [] key = "PageUp"    -> Max(0, currentIndex - 5)
    [] key = "PageDown"  -> Min(count - 1, currentIndex + 5)
    [] key = "ArrowUp"   -> IF currentIndex > 0 THEN currentIndex - 1
                            ELSE currentIndex
    [] key = "ArrowDown" -> IF currentIndex < count - 1 THEN currentIndex + 1
                            ELSE currentIndex
    [] OTHER             -> currentIndex

TableKeys == {"Enter", " ", "ArrowDown", "ArrowUp", "Home", "End", "PageUp",
              "PageDown"}

\* The year rows whose button the user clicks or presses a key on.
Buttons == {1, 2, 10}

\* A keydown on the expand button of year row i, which has the focus:
\* Enter and Space toggle (preventDefault: no click follows); in part_002
\* the other keys move the focus and announce the year.
ExpandKeydown(i, key) ==
  /\ i \in 1..Len(table.yearRows)
  /\ table.yearRows[i].button
  /\ IF key \in {"Enter", " "}
     THEN /\ table' = [Toggled(table, i) EXCEPT !.focus = i]
          /\ live' = Written(live, "table", ToggleMessage(table, i),
                             TableClear, FALSE)
     ELSE \E target \in {IF table.version = "part_002"
                         THEN TargetIndex(key, i - 1, Len(table.yearRows)) + 1
                         ELSE i} :
            /\ table' = [table EXCEPT !.focus = target]
            /\ live' = IF target # i
                       THEN Written(live, "table",
                                    <<"Year">> \o FirstDigits(
                                        table.yearRows[target].label),
                                    TableClear, FALSE)
                       ELSE live
  /\ UNCHANGED <<engine, validation, app, deb, chart>>

InitTable ==
  /\ EngineAtRest
  /\ validation = NotValidating
  /\ app = NoPage
  /\ deb = NoDebounce
  /\ live = NoLive
  /\ chart = NoChart
  /\ \E version \in TableVersions : table = [NoTable EXCEPT !.version = version]

NextTable ==
  \/ \E term \in TableTerms : RenderTable(term)
  \/ \E i \in Buttons : ExpandClick(i)
  \/ \E i \in Buttons, key \in TableKeys : ExpandKeydown(i, key)

SpecTable == InitTable /\ [][NextTable]_vars

\* ------------------------------------------------- vocabulary of the claims

\* The two-schedule calculate has returned.
Returned == pc \in {"returned", "annual1", "done"}

\* Both engines have returned.
BothReturned == pc = "done"

\* Some loop of either engine is running.
InLoop == pc \in {"monthly", "annual", "annual1"}

\* The three inputs as calculate receives them.
ArgPrincipal == args.principal

ArgRate == args.rate

ArgYears == args.years

\* x is absent (and so defaults to 0), or a number <= 0.
NonPositive(x) == x = Undefined \/ x = NInf \/ (x.k = "fin" /\ x.m <= 0)

\* x is NaN, +Infinity or -Infinity.
NotFinite(x) == x.k \in {"nan", "inf"}

\* x is a finite number > 0.
PositiveFinite(x) == x.k = "fin" /\ x.m > 0

\* x is a whole number >= 1.
PositiveWhole(x) == PositiveFinite(x) /\ IsWhole(x)

PositiveInputs ==
  PositiveFinite(ArgPrincipal) /\ PositiveFinite(ArgRate) /\ PositiveFinite(ArgYears)

PositiveWholeTerm ==
  PositiveFinite(ArgPrincipal) /\ PositiveFinite(ArgRate) /\ PositiveWhole(ArgYears)

\* Left-to-right sum of field f over rows from..to (1-based) of sched.
RECURSIVE SumRows(_, _, _, _)
SumRows(sched, from, to, f) ==
  IF to < from THEN Zero
  ELSE FAdd(SumRows(sched, from, to - 1, f), sched[to][f])

\* -------------------------------------------------------------- claims

\* C1: whenever principal, rate or years is <= 0 (an absent field counts
\* as 0) the call returns at once, without entering a loop, and what it
\* returns has the four totals 0 and empty schedules, in both engines.
C1_ZeroGuard ==
  (NonPositive(ArgPrincipal) \/ NonPositive(ArgRate) \/ NonPositive(ArgYears))
    => /\ ~InLoop
       /\ Returned => result = EmptyResult
       /\ BothReturned => result1 = EmptyResult1

C1_Witness ==
  /\ BothReturned
  /\ ArgPrincipal = Undefined
  /\ PositiveFinite(ArgRate) /\ PositiveFinite(ArgYears)
  /\ result = EmptyResult /\ result1 = EmptyResult1

\* C2: whenever principal, rate or years is NaN or an infinity, the call
\* returns the zeroed result: all four totals 0 and empty schedules.
C2_NonFiniteZeroed ==
  (NotFinite(ArgPrincipal) \/ NotFinite(ArgRate) \/ NotFinite(ArgYears))
    => /\ Returned => result = EmptyResult
       /\ BothReturned => result1 = EmptyResult1

\* C3: for finite positive principal and rate and a whole number of years
\* >= 1, the last monthly row has remainingBalance 0.
C3_FullyAmortized ==
  (Returned /\ PositiveWholeTerm)
    => /\ Len(result.monthlySchedule) > 0
       /\ result.monthlySchedule[Len(result.monthlySchedule)].remainingBalance = Zero

\* C4: every annual row's principal and interest are the sums of the
\* principal and interest of monthly rows 12*(y-1)+1 .. 12*y.
C4_AnnualIsSumOfMonths ==
  Returned =>
    \A y \in 1..Len(result.annualSchedule) :
      /\ 12 * y <= Len(result.monthlySchedule)
      /\ result.annualSchedule[y].principal =
           SumRows(result.monthlySchedule, 12 * (y - 1) + 1, 12 * y, "principal")
      /\ result.annualSchedule[y].interest =
           SumRows(result.monthlySchedule, 12 * (y - 1) + 1, 12 * y, "interest")

C4_Witness ==
  /\ Returned /\ PositiveInputs
  /\ Len(result.annualSchedule) >= 2
  /\ PositiveFinite(result.annualSchedule[2].principal)
  /\ PositiveFinite(result.annualSchedule[2].interest)

\* C5: every annual row's remainingBalance is the remainingBalance of
\* monthly row 12*y.
C5_AnnualBalanceFromMonth ==
  Returned =>
    \A y \in 1..Len(result.annualSchedule) :
      /\ 12 * y <= Len(result.monthlySchedule)
      /\ result.annualSchedule[y].remainingBalance =
           result.monthlySchedule[12 * y].remainingBalance

C5_Witness ==
  /\ Returned /\ PositiveInputs
  /\ Len(result.annualSchedule) >= 2
  /\ PositiveFinite(result.annualSchedule[1].remainingBalance)
  /\ result.monthlySchedule[11].remainingBalance
       # result.monthlySchedule[12].remainingBalance

\* C6, as stated, on the inputs the specification admits (finite positive
\* principal and rate, a whole number of years): totalPaid = principal +
\* totalInterest, and totalInterest is the sum of the monthly interest
\* portions and also the sum of the annual rows' interest.
C6_Original ==
  (Returned /\ PositiveWholeTerm) =>
    /\ result.totalPaid = FAdd(ArgPrincipal, result.totalInterest)
    /\ result.totalInterest =
         SumRows(result.monthlySchedule, 1, Len(result.monthlySchedule), "interest")
    /\ result.totalInterest =
         SumRows(result.annualSchedule, 1, Len(result.annualSchedule), "interest")

\* C6, amended: for every input the guard lets through, totalPaid =
\* principal + totalInterest and totalInterest is the left-to-right sum of
\* the monthly interest portions (a rejected input returns both as 0).
C6_Conservation ==
  Returned =>
    IF NonPositive(ArgPrincipal) \/ NonPositive(ArgRate) \/ NonPositive(ArgYears)
    THEN result.totalPaid = Zero /\ result.totalInterest = Zero
    ELSE /\ result.totalPaid = FAdd(ArgPrincipal, result.totalInterest)
         /\ result.totalInterest =
              SumRows(result.monthlySchedule, 1, Len(result.monthlySchedule),
                      "interest")

C6_Witness ==
  /\ Returned /\ PositiveWholeTerm
  /\ Len(result.monthlySchedule) = 24
  /\ PositiveFinite(result.totalInterest)
  /\ FLt(Default(ArgPrincipal), result.totalPaid)

\* C7: every monthly row's totalPayment is the returned monthlyPayment.
C7_PaymentInvariance ==
  Returned =>
    \A i \in 1..Len(result.monthlySchedule) :
      result.monthlySchedule[i].totalPayment = result.monthlyPayment

C7_Witness ==
  /\ Returned /\ PositiveInputs
  /\ Len(result.monthlySchedule) >= 12
  /\ PositiveFinite(result.monthlyPayment)
  /\ PositiveFinite(result.monthlySchedule[12].interest)

\* C8: from each monthly row to the next, interest does not increase,
\* principal does not decrease and remainingBalance does not increase.
C8_Monotone ==
  Returned =>
    \A i \in 1..(Len(result.monthlySchedule) - 1) :
      /\ ~FLt(result.monthlySchedule[i].interest,
              result.monthlySchedule[i + 1].interest)
      /\ ~FLt(result.monthlySchedule[i + 1].principal,
              result.monthlySchedule[i].principal)
      /\ ~FLt(result.monthlySchedule[i].remainingBalance,
              result.monthlySchedule[i + 1].remainingBalance)

\* C9: for finite positive principal and rate and a whole number of years
\* >= 1, there are years*12 monthly rows numbered 1..years*12 and years
\* annual rows numbered 1..years (in both engines).
C9_ScheduleLengths ==
  PositiveWholeTerm =>
    LET y == ToInt(ArgYears)
    IN  /\ Returned =>
             /\ Len(result.monthlySchedule) = 12 * y
             /\ Len(result.annualSchedule) = y
             /\ \A i \in 1..Len(result.monthlySchedule) :
                  result.monthlySchedule[i].month = i
             /\ \A j \in 1..Len(result.annualSchedule) :
                  result.annualSchedule[j].year = j
        /\ BothReturned =>
             /\ Len(result1.schedule) = y
             /\ \A j \in 1..Len(result1.schedule) : result1.schedule[j].year = j

C9_Witness ==
  /\ BothReturned /\ PositiveWholeTerm
  /\ ToInt(ArgYears) = MaxYears
  /\ Len(result.monthlySchedule) = 12 * MaxYears
  /\ Len(result.annualSchedule) = MaxYears

\* P * (r * (1+r)^n) / ((1+r)^n - 1), r = rate/100/12, n = years*12.
AnnuityFormula(p, rt, y) ==
  LET r == FDiv(FDiv(rt, FromInt(100)), FromInt(12))
      n == FMul(y, FromInt(12))
      X == MathPow(FAdd(FromInt(1), r), n)
  IN  FDiv(FMul(p, FMul(r, X)), FSub(X, FromInt(1)))

\* C10: for finite positive inputs monthlyPayment is the annuity formula's
\* value and annualPayment is monthlyPayment * 12 (in both engines).
C10_PaymentFormula ==
  PositiveInputs =>
    /\ Returned =>
         /\ result.monthlyPayment =
              AnnuityFormula(ArgPrincipal, ArgRate, ArgYears)
         /\ result.annualPayment = FMul(result.monthlyPayment, FromInt(12))
    /\ BothReturned =>
         /\ result1.monthlyPayment =
              AnnuityFormula(ArgPrincipal, ArgRate, ArgYears)
         /\ result1.annualPayment = FMul(result1.monthlyPayment, FromInt(12))

C10_Witness ==
  /\ BothReturned /\ PositiveInputs
  /\ PositiveFinite(result.monthlyPayment)
  /\ FLt(result.monthlyPayment, result.annualPayment)
  /\ result1.monthlyPayment = result.monthlyPayment

\* b is exactly 0, or a number >= 0.01.
ZeroOrAtLeastCent(b) == b = Zero \/ FLe(FDiv(FromInt(1), FromInt(100)), b)

\* C11: every remainingBalance of a monthly or annual row (of either
\* engine) is exactly 0 or at least 0.01: never negative, never a positive
\* value below 0.01, never anything else.
C11_BalanceFloor ==
  /\ Returned =>
       /\ \A i \in 1..Len(result.monthlySchedule) :
            ZeroOrAtLeastCent(result.monthlySchedule[i].remainingBalance)
       /\ \A j \in 1..Len(result.annualSchedule) :
            ZeroOrAtLeastCent(result.annualSchedule[j].remainingBalance)
  /\ BothReturned =>
       \A j \in 1..Len(result1.schedule) :
         ZeroOrAtLeastCent(result1.schedule[j].remainingBalance)

\* validateInput has returned.
Validated == validation.pc = "returned"

\* The field is one of the three the form has.
KnownField(f) == f \in {"principal", "rate", "years"}

\* The inclusive range <<min, max>> of a known field.
RangeOf(f) ==
  CASE f = "principal" -> <<FromInt(1000), FromInt(10000000)>>
    [] f = "rate"      -> <<FDiv(FromInt(1), FromInt(10)), FromInt(20)>>
    [] f = "years"     -> <<FromInt(1), FromInt(40)>>

\* v is a number, and min <= v <= max for the range of f.
NumberInRange(v, f) ==
  /\ v.k \in {"fin", "inf"}
  /\ FLe(RangeOf(f)[1], v)
  /\ FLe(v, RangeOf(f)[2])

\* C12: validateInput returns null exactly when the field is not one of
\* principal, rate, years, or the value is a number within the field's
\* inclusive range [min, max].
C12_NullIffValid ==
  Validated =>
    ((validation.ret = Null) <=>
       (~KnownField(validation.field)
          \/ NumberInRange(validation.value, validation.field)))

\* The label the form shows for a known field.
FieldLabel(f) ==
  CASE f = "principal" -> "Loan Amount"
    [] f = "rate"      -> "Interest Rate"
    [] f = "years"     -> "Loan Term"

\* The bounds of a known field as text, in the two locales' notation.
BoundText(f, locale) ==
  CASE f = "principal" ->
         IF locale = "enUS" THEN [min |-> "1,000", max |-> "10,000,000"]
                            ELSE [min |-> "1.000", max |-> "10.000.000"]
    [] f = "rate" ->
         IF locale = "enUS" THEN [min |-> "0.1", max |-> "20"]
                            ELSE [min |-> "0,1", max |-> "20"]
    [] f = "years" -> [min |-> "1", max |-> "40"]

\* v is not a number: NaN, undefined, or text that is not a numeral.
NotANumber(v) == v.k \in {"nan", "undef"} \/ (v.k = "string" /\ v.text # "")

\* C13: for a known field the return value is chosen in this order: the
\* field's own label + " is required" when the value is not a number, null
\* or ''; else label + " must be at least " + the field's min when value <
\* min; else label + " must be no more than " + the field's max when value
\* > max; else null.  The bound is printed in the host locale's notation.
C13_MessageOrder ==
  (Validated /\ KnownField(validation.field)) =>
    LET f == validation.field
        v == validation.value
        b == BoundText(f, validation.locale)
    IN  validation.ret =
          IF NotANumber(v) \/ v = Null \/ v = Str("")
          THEN Str(FieldLabel(f) \o " is required")
          ELSE IF FLt(v, RangeOf(f)[1])
               THEN Str(FieldLabel(f) \o " must be at least " \o b.min)
          ELSE IF FLt(RangeOf(f)[2], v)
               THEN Str(FieldLabel(f) \o " must be no more than " \o b.max)
          ELSE Null

\* null is missing and, read as 0, also below the minimum: "required" wins.
C13_Witness ==
  /\ Validated
  /\ validation.field = "principal"
  /\ validation.value = Null
  /\ validation.ret = Str("Loan Amount is required")

\* A loop `for (; counter <= bound; counter++)` is left after finitely many
\* more iterations: some later value of the counter fails the test.
CountingLoopEnds(counter, bound) ==
  \E n \in 0..(MaxRows + 1) : ~FLe(FromInt(counter + n), bound)

\* C15: every call terminates (each of its loops leaves after finitely
\* many iterations), and for positive inputs the monthly loop has made
\* exactly years * 12 iterations when the call returns.
C15_Terminates ==
  /\ pc = "monthly" => CountingLoopEnds(month, totalMonths)
  /\ pc = "annual" => CountingLoopEnds(year, years)
  /\ pc = "annual1" => CountingLoopEnds(calc1.year, calc1.years)
  /\ (Returned /\ PositiveInputs) =>
       FromInt(Len(result.monthlySchedule)) = FMul(ArgYears, FromInt(12))

\* C16, as stated, on finite positive principal and rate and a whole
\* number of years: every annual row's totalPayment is the sum of the
\* totalPayment of its 12 monthly rows, is 12 * monthlyPayment, and is the
\* returned annualPayment.
C16_Original ==
  (Returned /\ PositiveWholeTerm) =>
    \A y \in 1..Len(result.annualSchedule) :
      /\ result.annualSchedule[y].totalPayment =
           SumRows(result.monthlySchedule, 12 * (y - 1) + 1, 12 * y,
                   "totalPayment")
      /\ result.annualSchedule[y].totalPayment =
           FMul(result.monthlyPayment, FromInt(12))
      /\ result.annualSchedule[y].totalPayment = result.annualPayment

\* C16, amended: every annual row's totalPayment is the row's principal
\* plus the row's interest, the two sums over the year's monthly rows (in
\* both engines); it is 12 * monthlyPayment up to rounding only.
C16_AnnualTotal ==
  /\ Returned =>
       \A y \in 1..Len(result.annualSchedule) :
         result.annualSchedule[y].totalPayment =
           FAdd(SumRows(result.monthlySchedule, 12 * (y - 1) + 1, 12 * y,
                        "principal"),
                SumRows(result.monthlySchedule, 12 * (y - 1) + 1, 12 * y,
                        "interest"))
  /\ BothReturned =>
       \A y \in 1..Len(result1.schedule) :
         result1.schedule[y].totalPayment =
           FAdd(result1.schedule[y].principal, result1.schedule[y].interest)

\* A year whose totalPayment is a number other than the annualPayment.
C16_Witness ==
  /\ BothReturned /\ PositiveWholeTerm
  /\ Len(result.annualSchedule) >= 1
  /\ PositiveFinite(result.annualSchedule[1].totalPayment)
  /\ PositiveFinite(result.annualPayment)
  /\ result.annualSchedule[1].totalPayment # result.annualPayment

\* The balance before month k of the returned monthly schedule: the
\* principal for month 1, else the remainingBalance of row k - 1.
BalanceBefore(k) ==
  IF k = 1 THEN ArgPrincipal ELSE result.monthlySchedule[k - 1].remainingBalance

\* rate / 100 / 12 of the call's rate.
ArgMonthlyRate == FDiv(FDiv(ArgRate, FromInt(100)), FromInt(12))

\* Row k follows the recurrence from the balance before it.
FollowsRecurrence(k) ==
  LET row  == result.monthlySchedule[k]
      diff == FSub(BalanceBefore(k), row.principal)
  IN  /\ row.month = k
      /\ row.interest = FMul(BalanceBefore(k), ArgMonthlyRate)
      /\ row.principal = FSub(result.monthlyPayment, row.interest)
      /\ row.remainingBalance =
           IF FLt(diff, FDiv(FromInt(1), FromInt(100))) THEN Zero ELSE diff

\* C17, as stated, on finite positive principal and rate and a whole
\* number of years: every row follows the recurrence, and its principal
\* and interest add up to monthlyPayment.
C17_Original ==
  (Returned /\ PositiveWholeTerm) =>
    \A k \in 1..Len(result.monthlySchedule) :
      /\ FollowsRecurrence(k)
      /\ FAdd(result.monthlySchedule[k].principal,
              result.monthlySchedule[k].interest) = result.monthlyPayment

\* C17, amended: rows are numbered 1, 2, ... in order and for every row k
\* interest_k = balance_(k-1) * monthlyRate, principal_k = monthlyPayment -
\* interest_k, and balance_k = balance_(k-1) - principal_k, or 0 when that
\* difference is below 0.01 (principal_k + interest_k is monthlyPayment up
\* to rounding only).
C17_Recurrence ==
  Returned => \A k \in 1..Len(result.monthlySchedule) : FollowsRecurrence(k)

\* A schedule whose last difference was replaced by 0, and a row whose
\* two portions do not add up to the payment.
C17_Witness ==
  /\ Returned /\ PositiveWholeTerm
  /\ LET n == Len(result.monthlySchedule)
     IN  /\ n >= 12
         /\ result.monthlySchedule[n].remainingBalance = Zero
         /\ FSub(BalanceBefore(n), result.monthlySchedule[n].principal) # Zero
         /\ \E k \in 1..n :
              /\ PositiveFinite(result.monthlySchedule[k].principal)
              /\ FAdd(result.monthlySchedule[k].principal,
                      result.monthlySchedule[k].interest) # result.monthlyPayment

\* The rows of the returned monthly schedule that carry year y, in order
\* (what renderTable collects in monthsByYear[y]).
RowsOfYear(y) == SelectSeq(result.monthlySchedule, LAMBDA r : r.year = y)

\* The guard of calculate lets the input through: a schedule is computed.
PassesGuard ==
  ~(NonPositive(ArgPrincipal) \/ NonPositive(ArgRate) \/ NonPositive(ArgYears))

\* C18: the row with sequence number m carries year = ceil(m / 12) and
\* monthInYear = ((m - 1) mod 12) + 1, which is in 1..12 and gives
\* m = 12 * (year - 1) + monthInYear; in a computed schedule every year
\* from 1 to years owns exactly 12 rows, with monthInYear 1, 2, ..., 12 in
\* that order.
C18_YearAndMonth ==
  (Returned /\ PassesGuard) =>
    /\ \A i \in 1..Len(result.monthlySchedule) :
         LET row == result.monthlySchedule[i]
         IN  /\ row.month = i
             /\ row.year = (i + 11) \div 12
             /\ row.monthInYear = ((i - 1) % 12) + 1
             /\ row.monthInYear \in 1..12
             /\ row.month = 12 * (row.year - 1) + row.monthInYear
    /\ \A y \in 1..(Len(result.monthlySchedule) \div 12 + 1) :
         FLe(FromInt(y), ArgYears) =>
           /\ Len(RowsOfYear(y)) = 12
           /\ \A j \in 1..12 : RowsOfYear(y)[j].monthInYear = j

C18_Witness ==
  /\ Returned /\ PositiveWholeTerm
  /\ Len(result.monthlySchedule) = 24
  /\ result.monthlySchedule[12].year = 1
  /\ result.monthlySchedule[12].monthInYear = 12
  /\ result.monthlySchedule[13].year = 2
  /\ result.monthlySchedule[13].monthInYear = 1
  /\ Len(RowsOfYear(2)) = 12

\* Every field of the page's current inputs is a number within its range.
PageInputsValid ==
  \A f \in {"principal", "rate", "years"} : NumberInRange(app.inputs[f], f)

\* How many calls of fn updateAll has made.
CallsOf(fn) == Cardinality({i \in 1..Len(app.calls) : app.calls[i].fn = fn})

\* updateAll has run to its end.
UpdateAllDone == app.pc = "idle"

\* C19: when a field of the current inputs is invalid, updateAll never
\* calls calculate, renderEquations or renderChart, and at its end has
\* rendered the summary with all four totals 0 and the empty table; when
\* all three are valid it calls calculate exactly once, with the current
\* inputs, and renders what that call returned.
C19_BlocksInvalid ==
  IF ~PageInputsValid
  THEN /\ CallsOf("calculate") = 0
       /\ CallsOf("renderEquations") = 0
       /\ CallsOf("renderChart") = 0
       /\ pc = "idle" /\ result = [returned |-> FALSE]
       /\ UpdateAllDone =>
            /\ app.shown.results =
                 [monthlyPayment |-> Zero, annualPayment |-> Zero,
                  totalInterest |-> Zero, totalPaid |-> Zero]
            /\ app.shown.table.annualSchedule = <<>>
  ELSE /\ CallsOf("calculate") <= 1
       /\ CallsOf("calculate") = 1 => args = app.inputs
       /\ UpdateAllDone =>
            /\ CallsOf("calculate") = 1
            /\ Returned
            /\ app.shown.results.monthlyPayment = result.monthlyPayment
            /\ app.shown.results.annualPayment = result.annualPayment
            /\ app.shown.results.totalInterest = result.totalInterest
            /\ app.shown.results.totalPaid = result.totalPaid
            /\ app.shown.table = result
            /\ app.shown.equations = result

\* A positive principal below the minimum: calculate would accept it, the
\* page does not call it.
C19_Witness ==
  /\ UpdateAllDone
  /\ app.inputs.principal = FromInt(1)
  /\ NumberInRange(app.inputs.rate, "rate")
  /\ NumberInRange(app.inputs.years, "years")
  /\ Len(app.calls) = 3
  /\ app.shown.table.annualSchedule = <<>>

\* fn is run in this step.
FnRuns == deb'.runsSinceCall = deb.runsSinceCall + 1

\* C20: fn runs only when at least wait has passed since the latest call,
\* with that call's arguments, and not a second time before a new call; a
\* call leaves exactly one run pending, its own; and once the calls have
\* stopped fn has eventually run exactly once since the last of them, with
\* its arguments, and nothing is pending.
C20_Debounce ==
  /\ [](Cardinality(deb.timers) <= 1 /\ deb.runsSinceCall <= 1)
  /\ [][FnRuns =>
          /\ deb.nCalls > 0
          /\ deb.now >= deb.lastCall.at + Wait
          /\ deb'.lastRun.args = deb.lastCall.args
          /\ deb.runsSinceCall = 0]_vars
  /\ [][deb'.nCalls # deb.nCalls =>
          deb'.timers = {[id |-> deb'.timeout, due |-> deb.now + Wait,
                          args |-> deb'.lastCall.args]}]_vars
  /\ <>[](deb.nCalls > 0 =>
            /\ deb.timers = {}
            /\ deb.runsSinceCall = 1
            /\ deb.lastRun.args = deb.lastCall.args)

\* A burst of three calls less than wait apart, after which fn has run
\* once, with the arguments of the third.
C20_Witness ==
  /\ deb.nCalls = 3
  /\ deb.lastCall.args = "rate"
  /\ deb.lastCall.at < Wait
  /\ deb.runsSinceCall = 1
  /\ deb.lastRun.args = "rate"
  /\ deb.timers = {}

\* The annual-only engine's rows are the two-schedule engine's annual rows,
\* and the two report the same payments.
SamePaymentsAndRows ==
  /\ result1.monthlyPayment = result.monthlyPayment
  /\ result1.annualPayment = result.annualPayment
  /\ Len(result1.schedule) = Len(result.annualSchedule)
  /\ \A y \in 1..Len(result1.schedule) :
       \A f \in {"year", "principal", "interest", "totalPayment",
                 "remainingBalance"} :
         result1.schedule[y][f] = result.annualSchedule[y][f]

\* C29 as stated: for positive principal and rate and a positive whole
\* number of years the two engines return the same monthlyPayment,
\* annualPayment, totalInterest and totalPaid, and schedule equals
\* annualSchedule row by row.
C29_Original ==
  (BothReturned /\ PositiveWholeTerm) =>
    /\ SamePaymentsAndRows
    /\ result1.totalInterest = result.totalInterest
    /\ result1.totalPaid = result.totalPaid

\* C29, amended: for such inputs the two engines return the same
\* monthlyPayment and annualPayment and the same annual rows.  The
\* annual-only engine's totalInterest is the sum, year by year, of its rows'
\* interest, the two-schedule engine's is the sum month by month of the
\* monthly rows' interest; the annual-only engine's totalPaid is principal
\* plus its totalInterest.  For a term of one year the totals are the same.
C29_Equivalence ==
  (BothReturned /\ PositiveWholeTerm) =>
    /\ SamePaymentsAndRows
    /\ result1.totalInterest
         = SumRows(result1.schedule, 1, Len(result1.schedule), "interest")
    /\ result.totalInterest
         = SumRows(result.monthlySchedule, 1, Len(result.monthlySchedule),
                   "interest")
    /\ result1.totalPaid = FAdd(ArgPrincipal, result1.totalInterest)
    /\ ArgYears = FromInt(1) =>
         /\ result1.totalInterest = result.totalInterest
         /\ result1.totalPaid = result.totalPaid

\* Both engines have returned two annual rows for a two-year loan.
C29_Witness ==
  /\ BothReturned
  /\ PositiveWholeTerm
  /\ Len(result1.schedule) = 2
  /\ Len(result.annualSchedule) = 2
  /\ result.monthlyPayment.m > 0


\* The call was given a positive principal and rate and a positive whole
\* number of years, and has returned a schedule of numbers.
C30_Case == Returned /\ PositiveWholeTerm

\* C30: for positive principal and rate and a positive whole number of
\* years, the principal portions of the monthly rows add up to the loan
\* principal, totalPaid is the sum of the monthly rows' totalPayment, which
\* is monthlyPayment * years * 12, and every principal portion is > 0.
C30_PrincipalRepaid ==
  C30_Case =>
    LET rows == result.monthlySchedule
    IN  /\ SumRows(rows, 1, Len(rows), "principal") = ArgPrincipal
        /\ result.totalPaid = SumRows(rows, 1, Len(rows), "totalPayment")
        /\ result.totalPaid
             = FMul(FMul(result.monthlyPayment, ArgYears), FromInt(12))
        /\ \A k \in 1..Len(rows) : FLt(Zero, rows[k].principal)


\* validateInput accepts each of the three inputs: a number within the
\* field's inclusive range.
FormAccepts ==
  /\ NumberInRange(ArgPrincipal, "principal")
  /\ NumberInRange(ArgRate, "rate")
  /\ NumberInRange(ArgYears, "years")

\* C26: for every input the form accepts, whole years or not, the last
\* monthly row and the last annual row have remainingBalance 0 and the
\* annual rows, twelve months each, cover every monthly row.
C26_AcceptedInputsAmortize ==
  (Returned /\ FormAccepts) =>
    LET ms == result.monthlySchedule
        as == result.annualSchedule
    IN  /\ Len(ms) > 0 /\ ms[Len(ms)].remainingBalance = Zero
        /\ Len(as) > 0 /\ as[Len(as)].remainingBalance = Zero
        /\ Len(ms) <= 12 * Len(as)


\* The numbers written in the texts of FieldTexts that are greater than 0.
NumberRead ==
  [principal |-> (<<"5", "0", "0">> :> FromInt(500))
                   @@ (<<"1", ",", "0", "0", "0">> :> FromInt(1000)),
   rate      |-> (<<" ", "2", "0", " ">> :> FromInt(20)),
   years     |-> (<<"1", ".", "0">> :> FromInt(1))]

\* The text of field id parses to a number greater than 0: it is one of
\* NumberRead, and a text with a thousands separator parses only where the
\* handler strips it (the principal of part_005).
ParsesAbove0(build, id, text) ==
  /\ text \in DOMAIN NumberRead[id]
  /\ (\E i \in 1..Len(text) : text[i] = ",")
       => (build = "part_005" /\ id = "principal")

\* C21: when the debounced handler of a field runs and the text does not
\* parse to a number greater than 0, state.inputs is unchanged and no
\* listener is notified; when it does, exactly that field of state.inputs
\* is replaced by the number, the other two fields and state.view are
\* unchanged, and the listeners are notified once.
C21_InputHandler ==
  [][\A id \in DOMAIN FieldTexts : \A text \in FieldTexts[id] :
       UpdateValueRuns(id, text) =>
         IF ParsesAbove0(app.build, id, text)
         THEN /\ app'.inputs = [app.inputs EXCEPT ![id] = NumberRead[id][text]]
              /\ app'.view = app.view
              /\ app'.notified = 1
         ELSE /\ app'.inputs = app.inputs
              /\ app'.view = app.view
              /\ app'.notified = 0]_vars

\* The handler of the principal of part_005 has stored 1000, read from
\* "1,000", and notified the listeners once.
C21_Witness ==
  /\ Idle
  /\ app.build = "part_005"
  /\ app.inputs = [DefaultInputs EXCEPT !.principal = FromInt(1000)]
  /\ app.notified = 1
  /\ app.lastAnnounced.principal = FromInt(1000)


\* C25: once detectNarrowScreen has set the force-table class, and until
\* it removes it, state.view is 'table' and the chart button is disabled
\* after every click and key on the toggle buttons.
C25_ForcedTableStays ==
  (Idle /\ app.forceTable) => (app.view = "table" /\ app.chartDisabled)


\* C27: after every handler has run to completion the chart button is the
\* pressed one exactly when the chart container is the visible one, and
\* exactly one of the chart container and the table container is visible.
C27_PressedButtonIsShown ==
  Idle =>
    /\ (app.pressed = "chart") <=> (app.shown.chartContainer = "block")
    /\ (app.shown.chartContainer = "block")
         # (app.shown.tableContainer = "block")


\* C28: a message written to a live region stays there until its own
\* clear timer runs or a newer message replaces it: while the timer set
\* for the latest message of a region still has time left, the region holds
\* a message (no timer set for an earlier message has erased it).
C28_MessageStays ==
  \A u \in live.timers :
    (u.kind = "clear" /\ ~u.replaced /\ u.left > 0)
      => live.text[u.region] # ""


\* index i moved by d months, kept within the rows 0..length-1.
MovedWithin(i, d, length) ==
  IF i + d < 0 THEN 0 ELSE IF i + d > length - 1 THEN length - 1 ELSE i + d

\* Where one keydown takes the selected index.
KeyTakes(key, i, length) ==
  CASE key = "ArrowRight" -> MovedWithin(i, 1, length)
    [] key = "ArrowLeft"  -> MovedWithin(i, 0 - 1, length)
    [] key = "PageDown"   -> MovedWithin(i, 12, length)
    [] key = "PageUp"     -> MovedWithin(i, 0 - 12, length)
    [] key = "Home"       -> 0
    [] key = "End"        -> length - 1
    [] OTHER              -> i

\* The selected index is an index of the schedule the chart shows.
IndexInSchedule ==
  chart.drawn => chart.currentIndex \in 0..(chart.length - 1)

\* C22: after any number of renderChart calls the selected index is an
\* index of the current monthly schedule, and one keydown on the canvas
\* moves it by exactly one month (ArrowRight, ArrowLeft), by exactly 12
\* months (PageDown, PageUp) or to the first or last month (Home, End),
\* kept within the current schedule.
C22_KeyMovesOnce ==
  /\ []IndexInSchedule
  /\ [][\A key \in ChartKeys :
          CanvasKeydown(key)
            => chart'.currentIndex
                 = KeyTakes(key, chart.currentIndex, chart.length)]_vars


\* The years between two labels of a term of n years.
LabelEvery(n) == IF n <= 15 THEN 1 ELSE IF n <= 30 THEN 2 ELSE 3

\* C23: the x-axis of the chart has a year label only at month 1 of a
\* year, at every year for a term up to 15 years, at every 2nd year for 16
\* to 30 years and at every 3rd year for 31 years or more.
C23_YearLabels ==
  chart.drawn =>
    LET n        == chart.length \div 12
        labelled == {i \in 1..chart.length : chart.labels[i] # <<>>}
    IN  /\ \A i \in labelled :
             /\ (i - 1) % 12 = 0
             /\ chart.labels[i] = <<"Y", (i + 11) \div 12>>
        /\ \E r \in 0..(LabelEvery(n) - 1) :
             {(i + 11) \div 12 : i \in labelled}
               = {y \in 1..n : y % LabelEvery(n) = r}


\* The button of year row i says its year is expanded.
SaysExpanded(t, i) == t.yearRows[i].expanded = "true"

\* The months of year y whose rows are visible.
VisibleMonths(t, y) ==
  {t.monthRows[k].monthInYear :
     k \in {j \in 1..Len(t.monthRows) :
              t.monthRows[j].year = y /\ ~t.monthRows[j].hidden}}

\* The monthly rows of each year are all visible when its button says
\* expanded, and all hidden when it does not.
RowsFollowButtons ==
  \A i \in 1..Len(table.yearRows) :
    VisibleMonths(table, table.yearRows[i].year)
      = IF SaysExpanded(table, i) THEN 1..12 ELSE {}

\* A click, Enter or Space on the expand button of year row i.
Activation(i) ==
  ExpandClick(i) \/ ExpandKeydown(i, "Enter") \/ ExpandKeydown(i, " ")

\* C24: after any activations of expand buttons and re-renders of the
\* table, the monthly rows of a year are visible exactly when the year's
\* button has aria-expanded 'true'; an activation flips that year's state
\* and no other year's; right after renderTable every year is collapsed.
C24_ExpandButtons ==
  /\ []RowsFollowButtons
  /\ [][\A i \in Buttons :
          Activation(i) =>
            /\ Len(table'.yearRows) = Len(table.yearRows)
            /\ SaysExpanded(table', i) = ~SaysExpanded(table, i)
            /\ \A j \in 1..Len(table.yearRows) :
                 j # i => SaysExpanded(table', j) = SaysExpanded(table, j)]_vars
  /\ [][\A term \in TableTerms :
          RenderTable(term) =>
            /\ Len(table'.yearRows) = term
            /\ \A i \in 1..term : ~SaysExpanded(table', i)]_vars

\* In a table of ten years the months of year 1 are shown, by a key on its
\* button, and those of year 10 are not.
C24_Witness ==
  /\ Len(table.yearRows) = 10
  /\ SaysExpanded(table, 1)
  /\ ~SaysExpanded(table, 10)
  /\ VisibleMonths(table, 1) = 1..12
  /\ VisibleMonths(table, 10) = {}
  /\ table.focus = 1

=============================================================================
